---- MODULE Spec2Model ----
(***************************************************************************)
(* Model of the two-pass anchor-resolution pipeline of spacy_API_PLS:      *)
(*   extractors/extracting_01/body_refind.py  (Body Re-Anchorer)           *)
(*   extractors/extracting_01/segmenter.py    (Summary/Body cut, Roster)   *)
(*   extractors/extracting_01/entities.py     (Entity Detector)            *)
(*   extractors/extracting_01/relations.py    (Relation Builder)           *)
(*                                                                         *)
(* A text is a sequence of characters; a character is a one-element        *)
(* string, or the HTML-entity name of a non-ASCII character ("hellip" is   *)
(* U+2026, "nbsp" U+00A0, "ordm" U+00BA, "lstrok"/"Lstrok" U+0142/U+0141,  *)
(* "Aacute"/"aacute" U+00C1/U+00E1, and likewise "Acirc", "Atilde",        *)
(* "Ccedil", "Ecirc", "Oacute", "Uacute", "deg", "ordf", "ndash").         *)
(* Offsets are 0-based and ranges are half-open [start, end), as in the    *)
(* Python source.                                                          *)
(***************************************************************************)
EXTENDS Integers, Sequences, FiniteSets, TLC

----------------------------------------------------------------------------
(* Character tables: what str.isspace, str.isalpha, str.upper, str.lower  *)
(* and unicodedata.normalize do on the characters the model uses.          *)

CasePairs ==
    { <<"A", "a">>, <<"B", "b">>, <<"C", "c">>, <<"D", "d">>, <<"E", "e">>,
      <<"F", "f">>, <<"G", "g">>, <<"H", "h">>, <<"I", "i">>, <<"J", "j">>,
      <<"K", "k">>, <<"L", "l">>, <<"M", "m">>, <<"N", "n">>, <<"O", "o">>,
      <<"P", "p">>, <<"Q", "q">>, <<"R", "r">>, <<"S", "s">>, <<"T", "t">>,
      <<"U", "u">>, <<"V", "v">>, <<"W", "w">>, <<"X", "x">>, <<"Y", "y">>,
      <<"Z", "z">>, <<"Lstrok", "lstrok">>, <<"Aacute", "aacute">>, <<"Acirc", "acirc">>, <<"Atilde", "atilde">>,
      <<"Ccedil", "ccedil">>, <<"Ecirc", "ecirc">>, <<"Oacute", "oacute">>, <<"Uacute", "uacute">> }

UpperLetters == { p[1] : p \in CasePairs }
LowerLetters == { p[2] : p \in CasePairs }

\* str.isspace
IsSpace(c) == c \in { " ", "\n", "\r", "\t", "nbsp" }

\* str.isalpha ("ordm" is category Lo: a letter without case)
IsAlpha(c) == c \in UpperLetters \cup LowerLetters \cup { "ordm" }

\* str.upper of one character
Upper(c) == IF c \in LowerLetters
            THEN (CHOOSE p \in CasePairs : p[2] = c)[1] ELSE c

\* str.lower of one character
Lower(c) == IF c \in UpperLetters
            THEN (CHOOSE p \in CasePairs : p[1] = c)[2] ELSE c

\* the character class [A-Za-zA`-y"] of _caps_token_rx (U+00C0..U+00FF):
\* U+0141/U+0142 and U+00BA lie outside it
InCapsRx(c) == c \in (UpperLetters \cup LowerLetters) \ { "Lstrok", "lstrok" }

\* unicodedata.normalize("NFKC", c) of one character
NFKCChar(c) == CASE c = "hellip" -> << ".", ".", "." >>
                 [] c = "ordm"   -> << "o" >>
                 [] c = "nbsp"   -> << " " >>
                 [] OTHER        -> << c >>

\* unicodedata.normalize("NFKD", c) without the combining marks
StripDiacriticsChar(c) ==
    CASE c \in { "Aacute", "Acirc", "Atilde" } -> << "A" >>
      [] c \in { "aacute", "acirc", "atilde" } -> << "a" >>
      [] c = "Ccedil" -> << "C" >>
      [] c = "ccedil" -> << "c" >>
      [] c = "Ecirc"  -> << "E" >>
      [] c = "ecirc"  -> << "e" >>
      [] c = "Oacute" -> << "O" >>
      [] c = "oacute" -> << "o" >>
      [] c = "Uacute" -> << "U" >>
      [] c = "uacute" -> << "u" >>
      [] c = "ordm"   -> << "o" >>
      [] c = "hellip" -> << ".", ".", "." >>
      [] c = "nbsp"   -> << " " >>
      [] OTHER        -> << c >>

\* _canonical_glyphs of one character
CanonicalGlyphsChar(c) == CASE c = "nbsp" -> " "
                            [] c \in { "ordm", "deg" } -> "o"
                            [] c = "ordf" -> "a"
                            [] OTHER -> c

----------------------------------------------------------------------------
(* Sequence helpers (Python slicing, str.strip, str.split).                *)

Min(a, b) == IF a < b THEN a ELSE b
Max(a, b) == IF a > b THEN a ELSE b

\* s[a:b] for 0 <= a, 0 <= b: Python clamps both ends to len(s)
Slice(s, a, b) == SubSeq(s, a + 1, Min(b, Len(s)))

RECURSIVE Flatten(_)
Flatten(ss) == IF ss = << >> THEN << >> ELSE Head(ss) \o Flatten(Tail(ss))

\* str.strip(): drop leading and trailing whitespace
RECURSIVE LStrip(_)
LStrip(s) == IF s # << >> /\ IsSpace(Head(s)) THEN LStrip(Tail(s)) ELSE s

RECURSIVE RStrip(_)
RStrip(s) == IF s # << >> /\ IsSpace(s[Len(s)])
             THEN RStrip(SubSeq(s, 1, Len(s) - 1)) ELSE s

Strip(s) == RStrip(LStrip(s))

\* re.sub(r"\s+", " ", s): every maximal run of whitespace becomes one space
RECURSIVE WhitespaceSub(_, _)
WhitespaceSub(s, prevSpace) ==
    IF s = << >> THEN << >>
    ELSE IF IsSpace(Head(s))
         THEN (IF prevSpace THEN << >> ELSE << " " >>) \o WhitespaceSub(Tail(s), TRUE)
         ELSE << Head(s) >> \o WhitespaceSub(Tail(s), FALSE)

\* re.split(r"\s+", s) / str.split(): the maximal runs of non-whitespace.
\* cur is the token being read.
RECURSIVE SplitWs(_, _)
SplitWs(s, cur) ==
    IF s = << >> THEN (IF cur = << >> THEN << >> ELSE << cur >>)
    ELSE IF IsSpace(Head(s))
         THEN (IF cur = << >> THEN << >> ELSE << cur >>) \o SplitWs(Tail(s), << >>)
         ELSE SplitWs(Tail(s), Append(cur, Head(s)))

\* " ".join(parts)
RECURSIVE JoinSpace(_)
JoinSpace(parts) ==
    IF parts = << >> THEN << >>
    ELSE IF Len(parts) = 1 THEN parts[1]
    ELSE parts[1] \o << " " >> \o JoinSpace(Tail(parts))

----------------------------------------------------------------------------
(* ALL-CAPS gate (body_refind.py, lines 16-34).                            *)

\* _is_all_caps_token: at least one letter, and no letter differs from its
\* upper-case form
IsAllCapsToken(tok) ==
    /\ \E i \in 1..Len(tok) : IsAlpha(tok[i])
    /\ \A i \in 1..Len(tok) : IsAlpha(tok[i]) => tok[i] = Upper(tok[i])

\* re.search(r"\n\s*\n", text)
HasBlankLine(text) ==
    \E i, j \in 1..Len(text) :
        /\ i < j
        /\ text[i] = "\n"
        /\ text[j] = "\n"
        /\ \A k \in (i + 1)..(j - 1) : IsSpace(text[k])

\* _caps_token_rx.search(tok)
CapsTokenRxSearch(tok) == \E i \in 1..Len(tok) : InCapsRx(tok[i])

\* _passes_all_caps_gate
PassesAllCapsGate(text) ==
    /\ ~HasBlankLine(text)
    /\ LET toks == SplitWs(Strip(text), << >>)
       IN  \A k \in 1..Len(toks) :
               ~(CapsTokenRxSearch(toks[k]) /\ ~IsAllCapsToken(toks[k]))

----------------------------------------------------------------------------
(* Normalisation (body_refind.py, lines 38-177).                           *)

\* unicodedata.normalize("NFKC", s)
NFKC(s) == Flatten([i \in 1..Len(s) |-> NFKCChar(s[i])])

\* _strip_diacritics(s)
StripDiacritics(s) == Flatten([i \in 1..Len(s) |-> StripDiacriticsChar(s[i])])

\* _canonical_glyphs(s)
CanonicalGlyphs(s) == [i \in 1..Len(s) |-> CanonicalGlyphsChar(s[i])]

\* str.lower
LowerStr(s) == [i \in 1..Len(s) |-> Lower(s[i])]

\* _heal_hyphen_linebreak_pairs(original, i), i 0-based
HealHyphenLinebreakPairs(original, i) ==
    IF original[i + 1] # "-" THEN [skip |-> FALSE, new_i |-> i]
    ELSE IF i + 1 < Len(original) /\ original[i + 2] = "\n"
         THEN [skip |-> TRUE, new_i |-> i + 2]
    ELSE IF i + 2 < Len(original) /\ original[i + 2] = "\r" /\ original[i + 3] = "\n"
         THEN [skip |-> TRUE, new_i |-> i + 3]
    ELSE [skip |-> FALSE, new_i |-> i]

\* first pass of _build_normalized_with_map (the while loop, lines 83-122);
\* i is the 0-based position in src, pws is prev_was_space
RECURSIVE FirstPass(_, _, _, _, _)
FirstPass(src, i, nc, im, pws) ==
    IF i >= Len(src) THEN [chars |-> nc, map |-> im]
    ELSE LET ch   == src[i + 1]
             heal == HealHyphenLinebreakPairs(src, i)
         IN  IF heal.skip THEN FirstPass(src, heal.new_i, nc, im, FALSE)
             ELSE IF IsSpace(ch)
                  THEN IF ~pws
                       THEN FirstPass(src, i + 1, Append(nc, " "), Append(im, i), TRUE)
                       ELSE FirstPass(src, i + 1, nc, im, TRUE)
                  ELSE LET out == LowerStr(StripDiacriticsChar(CanonicalGlyphsChar(ch)))
                       IN  FirstPass(src, i + 1, nc \o out,
                                     im \o [k \in 1..Len(out) |-> i], FALSE)

\* mutant: the final pass keeps the characters of the first pass as they are
\* (no second whitespace collapse)
FinalPassKeepSpaces(nc, im, k, acc, prevSpace) == [chars |-> nc, map |-> im]

\* final pass of _build_normalized_with_map (lines 135-147) over the zipped
\* characters and offsets, before the leading/trailing space is popped
RECURSIVE FinalPass(_, _, _, _, _)
FinalPass(nc, im, k, acc, prevSpace) ==
    IF k > Len(nc) THEN acc
    ELSE IF IsSpace(nc[k])
         THEN IF ~prevSpace /\ Len(acc.chars) > 0
              THEN FinalPass(nc, im, k + 1,
                             [chars |-> Append(acc.chars, " "),
                              map |-> Append(acc.map, im[k])], TRUE)
              ELSE FinalPass(nc, im, k + 1, acc, TRUE)
         ELSE FinalPass(nc, im, k + 1,
                        [chars |-> Append(acc.chars, nc[k]),
                         map |-> Append(acc.map, im[k])], FALSE)

\* lines 149-154: pop one leading and one trailing space
PopEnds(r) ==
    LET a == IF r.chars # << >> /\ r.chars[1] = " "
             THEN [chars |-> Tail(r.chars), map |-> Tail(r.map)] ELSE r
    IN  IF a.chars # << >> /\ a.chars[Len(a.chars)] = " "
        THEN [chars |-> SubSeq(a.chars, 1, Len(a.chars) - 1),
              map |-> SubSeq(a.map, 1, Len(a.map) - 1)]
        ELSE a

\* _build_normalized_with_map(original) -> (norm, idx_map); the offsets in
\* idx_map are positions of src, the NFKC form of original (line 78)
BuildNormalizedWithMap(original) ==
    LET src   == NFKC(original)
        first == FirstPass(src, 0, << >>, << >>, FALSE)
        norm  == Strip(WhitespaceSub(first.chars, FALSE))
    IN  IF norm # << >>
        THEN LET r == PopEnds(FinalPass(first.chars, first.map, 1,
                                        [chars |-> << >>, map |-> << >>], FALSE))
             IN  [norm |-> r.chars, idx_map |-> r.map]
        ELSE [norm |-> << >>, idx_map |-> << >>]

\* s.split(" ") with the empty pieces dropped (line 174)
RECURSIVE SplitOnSpace(_, _)
SplitOnSpace(s, cur) ==
    IF s = << >> THEN (IF cur = << >> THEN << >> ELSE << cur >>)
    ELSE IF Head(s) = " "
         THEN (IF cur = << >> THEN << >> ELSE << cur >>) \o SplitOnSpace(Tail(s), << >>)
         ELSE SplitOnSpace(Tail(s), Append(cur, Head(s)))

\* _normalize_phrase_for_regex(s): the compiled pattern is the sequence of
\* escaped literal parts, to be joined by \s+; << >> stands for ""
NormalizePhraseForRegex(s) ==
    LET s1 == NFKC(s)
        s2 == CanonicalGlyphs(s1)
        s3 == LowerStr(StripDiacritics(s2))
        s4 == Strip(WhitespaceSub(s3, FALSE))
    IN  SplitOnSpace(s4, << >>)

----------------------------------------------------------------------------
(* Matching over the normalised text (body_refind.py, lines 181-216).      *)

\* first 0-based position >= pos of norm that holds no whitespace
RECURSIVE SkipSpaces(_, _)
SkipSpaces(norm, pos) ==
    IF pos < Len(norm) /\ IsSpace(norm[pos + 1]) THEN SkipSpaces(norm, pos + 1) ELSE pos

\* rx.match at the 0-based position pos, for rx = parts joined by \s+ :
\* the end (exclusive) of the match, or -1. A part holds no whitespace, so
\* the greedy \s+ never has to give a character back.
RECURSIVE MatchParts(_, _, _)
MatchParts(norm, pos, parts) ==
    LET e == pos + Len(parts[1])
    IN  IF e > Len(norm) \/ SubSeq(norm, pos + 1, e) # parts[1] THEN -1
        ELSE IF Len(parts) = 1 THEN e
        ELSE LET w == SkipSpaces(norm, e)
             IN  IF w = e THEN -1 ELSE MatchParts(norm, w, Tail(parts))

\* rx.finditer(norm): the leftmost non-overlapping matches from pos on
RECURSIVE FindIter(_, _, _)
FindIter(norm, parts, pos) ==
    IF pos >= Len(norm) THEN << >>
    ELSE LET e == MatchParts(norm, pos, parts)
         IN  IF e # -1 THEN << << pos, e >> >> \o FindIter(norm, parts, e)
             ELSE FindIter(norm, parts, pos + 1)

\* hits.sort(key=lambda t: (t[0], -t[1])): insertion of h into a sorted list
\* (stable: h goes after the hits with an equal key)
RECURSIVE InsertHit(_, _)
InsertHit(sorted, h) ==
    IF sorted = << >> THEN << h >>
    ELSE LET x == Head(sorted)
         IN  IF h[1] < x[1] \/ (h[1] = x[1] /\ h[2] > x[2])
             THEN << h >> \o sorted
             ELSE << x >> \o InsertHit(Tail(sorted), h)

RECURSIVE SortHits(_)
SortHits(hits) ==
    IF hits = << >> THEN << >>
    ELSE InsertHit(SortHits(SubSeq(hits, 1, Len(hits) - 1)), hits[Len(hits)])

\* lines 201-212: the matches mapped back through idx_map, those failing the
\* gate dropped when enforce_caps is set
RECURSIVE MapHits(_, _, _, _)
MapHits(ms, idx_map, enforce_caps, original_text) ==
    IF ms = << >> THEN << >>
    ELSE LET nst  == Head(ms)[1]
             nen  == Head(ms)[2]
             rest == MapHits(Tail(ms), idx_map, enforce_caps, original_text)
         IN  IF nst >= Len(idx_map) \/ nen - 1 >= Len(idx_map) THEN rest
             ELSE LET orig_start == idx_map[nst + 1]
                      orig_end   == idx_map[nen] + 1
                  IN  IF enforce_caps
                         /\ ~PassesAllCapsGate(Slice(original_text, orig_start, orig_end))
                      THEN rest
                      ELSE << << orig_start, orig_end >> >> \o rest

\* the hits of one phrase (<< >> when the pattern is empty)
PhraseHits(norm_body, idx_map, p, enforce_caps, original_text) ==
    LET pat == NormalizePhraseForRegex(p)
    IN  IF pat = << >> THEN << >>
        ELSE SortHits(MapHits(FindIter(norm_body, pat, 0), idx_map,
                              enforce_caps, original_text))

\* _gather_regex_candidates: phrase -> sorted hits, for the phrases that
\* have at least one hit
GatherRegexCandidates(norm_body, idx_map, phrases, enforce_caps, original_text) ==
    LET found == { phrases[k] : k \in { j \in 1..Len(phrases) :
                       PhraseHits(norm_body, idx_map, phrases[j],
                                  enforce_caps, original_text) # << >> } }
    IN  [ p \in found |->
            PhraseHits(norm_body, idx_map, p, enforce_caps, original_text) ]

\* d.get(phrase, [])
CandsOf(d, phrase) == IF phrase \in DOMAIN d THEN d[phrase] ELSE << >>

----------------------------------------------------------------------------
(* build_body_via_sumario_spacy (body_refind.py, lines 220-423): the state *)
(* of one call.                                                            *)

VARIABLES
    full_text,        \* doc.text, the BODY-only text
    roster,           \* roster["orgs"]: [org_text, suborg_texts, doc_texts]
    pc,               \* position in the function
    norm_body,        \* the normalised shadow of full_text
    idx_map,          \* norm position -> offset
    org_cands,        \* phrase -> hits, gated
    sub_cands,        \* phrase -> hits, gated
    doc_cands,        \* phrase -> hits, not gated
    assigned_orgs,    \* per roster entry: the chosen span or None
    cursor,           \* the ORG cursor of step 4
    sec_i,            \* 1-based index of the for loop of step 5
    sub_assignments,  \* << st, en, phrase >> of the section at hand
    doc_assignments,  \* << st, en >> of the section at hand
    body_items,       \* the list being returned
    order_idx,        \* next order_index
    ents,             \* doc.ents of the whole document (segmenter.py)
    seen_tokens,      \* _find_body_start_with_first_repeated_org: seen ORGs
    scan_k,           \* 1-based index of its loop over the entities
    cut,              \* its result, -1 while it runs
    line_i,           \* detect_entities: i, the 0-based index of the line at hand
    state,            \* detect_entities: "OUTSIDE" or "IN_SECTION"
    spans,            \* detect_entities: the spans appended so far
    relations,        \* doc._.relations
    current_org,      \* build_relations: the latest ORG, or None
    last_suborg,      \* build_relations: the latest ORG_SECUNDARIA, or None
    last_org_by_norm, \* build_relations: normalised text -> ORG
    edge_id,          \* build_relations: the next edge id
    rel_k,            \* build_relations: 1-based index of its loop
    merged,           \* _merge_orphan_orgs: the list being built
    merge_i,          \* _merge_orphan_orgs: i, 0-based
    renorm,           \* the shadow of the shadow text
    sumario           \* the Sumario of build_sumario_and_body: text, ents, relations

bodyVars == << norm_body, idx_map, org_cands, sub_cands, doc_cands,
               assigned_orgs, cursor, sec_i, sub_assignments,
               doc_assignments, body_items, order_idx >>

cutVars == << ents, seen_tokens, scan_k, cut >>

entVars == << line_i, state, spans >>

relVars == << relations, current_org, last_suborg, last_org_by_norm, edge_id, rel_k >>

mergeVars == << merged, merge_i >>

docVars == << entVars, relVars, mergeVars, renorm, sumario >>

vars == << full_text, roster, pc, bodyVars, cutVars, docVars >>

None == << >>

\* roster entry
Entry(o, s, d) == [org_text |-> o, suborg_texts |-> s, doc_texts |-> d]

\* mutant: the ORG cursor is ignored, every ORG takes its first candidate
FirstHitFromStart(hits, cur) == IF hits = << >> THEN None ELSE Head(hits)

\* the first hit that starts after cur, a hit that starts at cur left out
RECURSIVE FirstHitAfter(_, _)
FirstHitAfter(hits, cur) ==
    IF hits = << >> THEN None
    ELSE IF Head(hits)[1] > cur THEN Head(hits)
    ELSE FirstHitAfter(Tail(hits), cur)

\* the first hit of hits (in list order) that starts at or after cur, or None
RECURSIVE FirstHitFrom(_, _)
FirstHitFrom(hits, cur) ==
    IF hits = << >> THEN None
    ELSE IF Head(hits)[1] >= cur THEN Head(hits)
    ELSE FirstHitFrom(Tail(hits), cur)

\* [h for h in hits if lo <= h[0] < hi]
RECURSIVE HitsIn(_, _, _)
HitsIn(hits, lo, hi) ==
    IF hits = << >> THEN << >>
    ELSE (IF lo <= Head(hits)[1] /\ Head(hits)[1] < hi THEN << Head(hits) >> ELSE << >>)
         \o HitsIn(Tail(hits), lo, hi)

\* next_org_start(i) (lines 274-278), i the 1-based index of the entry
RECURSIVE NextOrgStartFrom(_, _, _)
NextOrgStartFrom(assigned, j, text_len) ==
    IF j > Len(assigned) THEN text_len
    ELSE IF assigned[j] # None THEN assigned[j][1]
    ELSE NextOrgStartFrom(assigned, j + 1, text_len)

\* mutant: the section ends at the next roster entry's span, and at the end
\* of the text when that entry is unassigned
NextOrgStartAdjacent(assigned, i, text_len) ==
    IF i + 1 <= Len(assigned) /\ assigned[i + 1] # None
    THEN assigned[i + 1][1] ELSE text_len

NextOrgStart(assigned, i, text_len) == NextOrgStartFrom(assigned, i + 1, text_len)

\* lines 303-316: the SUBORG hits of one section, in roster order
RECURSIVE AssignSuborgs(_, _, _, _, _)
AssignSuborgs(phrases, cands, org_st, section_end, sub_cursor) ==
    IF phrases = << >> THEN << >>
    ELSE LET phrase == Head(phrases)
             hits   == HitsIn(CandsOf(cands, phrase), org_st, section_end)
             chosen == FirstHitFrom(hits, sub_cursor)
         IN  IF chosen = None
             THEN AssignSuborgs(Tail(phrases), cands, org_st, section_end, sub_cursor)
             ELSE << << chosen[1], chosen[2], phrase >> >>
                  \o AssignSuborgs(Tail(phrases), cands, org_st, section_end, chosen[2])

\* lines 318-331: the DOC hits of one section, in roster order
RECURSIVE AssignDocs(_, _, _, _, _)
AssignDocs(phrases, cands, org_en, section_end, doc_cursor) ==
    IF phrases = << >> THEN << >>
    ELSE LET hits   == HitsIn(CandsOf(cands, Head(phrases)), org_en, section_end)
             chosen == FirstHitFrom(hits, doc_cursor)
         IN  IF chosen = None
             THEN AssignDocs(Tail(phrases), cands, org_en, section_end, doc_cursor)
             ELSE << chosen >>
                  \o AssignDocs(Tail(phrases), cands, org_en, section_end, chosen[2])

LookbackChars == 120

\* a look-back over everything before org_en
RECURSIVE LookbackDocsUnbounded(_, _, _, _)
LookbackDocsUnbounded(phrases, cands, lookback, org_en) ==
    IF phrases = << >> THEN << >>
    ELSE LET hits == HitsIn(CandsOf(cands, Head(phrases)), 0, org_en)
         IN  IF hits # << >> THEN << Head(hits) >>
             ELSE LookbackDocsUnbounded(Tail(phrases), cands, lookback, org_en)

\* lines 335-343: the first doc phrase with a hit starting in
\* [lookback, org_en) gives the one assignment
RECURSIVE LookbackDocs(_, _, _, _)
LookbackDocs(phrases, cands, lookback, org_en) ==
    IF phrases = << >> THEN << >>
    ELSE LET hits == HitsIn(CandsOf(cands, Head(phrases)), lookback, org_en)
         IN  IF hits # << >> THEN << Head(hits) >>
             ELSE LookbackDocs(Tail(phrases), cands, lookback, org_en)

\* BodyItem(...)
BodyItem(entry, org_span, title, d_st, d_en, rel, s_st, s_en, idx) ==
    [ org_text    |-> JoinSpace(SplitWs(entry.org_text, << >>)),
      org_start   |-> org_span[1],
      org_end     |-> org_span[2],
      section_id  |-> org_span[1],
      doc_title   |-> title,
      doc_start   |-> d_st,
      doc_end     |-> d_en,
      relation    |-> rel,
      slice_text  |-> Strip(Slice(full_text, s_st, s_en)),
      slice_start |-> s_st,
      slice_end   |-> s_en,
      order_index |-> idx ]

\* mutant: the title of a SUBORG-driven item is cut out of the body text
SuborgItemsTitleFromBody(entry, org_span, subs, section_end, first_idx) ==
    [ k \in 1..Len(subs) |->
        BodyItem(entry, org_span, Slice(full_text, subs[k][1], subs[k][2]),
                 subs[k][1], subs[k][2], "CONTAINS",
                 subs[k][1],
                 IF k + 1 <= Len(subs) THEN subs[k + 1][1] ELSE section_end,
                 first_idx + k - 1) ]

\* mutant: a section without SUBORG hits is emitted whole, as one item
SuborgItemsWholeSection(entry, org_span, subs, section_end, first_idx) ==
    IF subs = << >>
    THEN << BodyItem(entry, org_span, entry.org_text, org_span[1], org_span[2],
                     "CONTAINS", org_span[1], section_end, first_idx) >>
    ELSE [ k \in 1..Len(subs) |->
             BodyItem(entry, org_span, subs[k][3], subs[k][1], subs[k][2], "CONTAINS",
                      subs[k][1],
                      IF k + 1 <= Len(subs) THEN subs[k + 1][1] ELSE section_end,
                      first_idx + k - 1) ]

\* lines 348-364: one CONTAINS item per SUBORG hit
SuborgItems(entry, org_span, subs, section_end, first_idx) ==
    [ k \in 1..Len(subs) |->
        BodyItem(entry, org_span, subs[k][3], subs[k][1], subs[k][2], "CONTAINS",
                 subs[k][1],
                 IF k + 1 <= Len(subs) THEN subs[k + 1][1] ELSE section_end,
                 first_idx + k - 1) ]

\* mutant: every DOC slice ends at the section end
DocSliceEndAtSection(docs, k, section_end) == section_end

\* the end of the k-th DOC-driven slice (lines 369, 388, 418)
DocSliceEnd(docs, k, section_end) ==
    IF k + 1 <= Len(docs) THEN docs[k + 1][1] ELSE section_end

\* mutant: order_index starts again at 1 in every ORG section
DocItemsResetPerOrg(entry, org_span, docs, section_end, first_idx) ==
    [ k \in 1..Len(docs) |->
        BodyItem(entry, org_span,
                 Slice(full_text, docs[k][1], docs[k][2]),
                 docs[k][1], docs[k][2], "SECTION_ITEM",
                 IF k = 1 THEN org_span[1] ELSE docs[k][1],
                 DocSliceEnd(docs, k, section_end),
                 k) ]

\* lines 368-421: one SECTION_ITEM item per DOC hit; the first starts at the
\* ORG, the others at their DOC
DocItems(entry, org_span, docs, section_end, first_idx) ==
    [ k \in 1..Len(docs) |->
        BodyItem(entry, org_span,
                 Slice(full_text, docs[k][1], docs[k][2]),
                 docs[k][1], docs[k][2], "SECTION_ITEM",
                 IF k = 1 THEN org_span[1] ELSE docs[k][1],
                 DocSliceEnd(docs, k, section_end),
                 first_idx + k - 1) ]

----------------------------------------------------------------------------
(* Inputs of the re-anchoring model.                                       *)

MaxBodyLen == 4

BodyAlphabet == { "A", "B", "a", " ", "\n", "hellip", "lstrok" }

Texts(alphabet, n) == UNION { [1..k -> alphabet] : k \in 0..n }

pA  == << "A" >>
pB  == << "B" >>
pAB == << "A", " ", "B" >>
pa  == << "a" >>
pb  == << "b" >>
pL  == << "Lstrok" >>

\* the rosters the bodies are re-anchored against: one ORG with three DOCs;
\* one ORG with SUBORGs and a DOC phrase of its own; two ORGs; three ORGs,
\* the first and the last with the same text; phrases with inner whitespace
RosterChoices ==
    { << Entry(pA, << pB, pB >>, << pa, pa, pa >>) >>,
      << Entry(pA, << pB, pB >>, << pL >>) >>,
      << Entry(pA, << >>, << pa >>), Entry(pB, << pA >>, << pL >>) >>,
      << Entry(pB, << pA >>, << pa, pa >>), Entry(pA, << >>, << pb >>),
         Entry(pB, << pL >>, << pL >>) >>,
      << Entry(pAB, << >>, << pa >>), Entry(pL, << pA, pB >>, << >>) >>,
      << Entry(pB, << pAB >>, << >>) >> }

\* "Portaria n.o 5/2020" with U+00BA for the ordinal
PortariaPhrase ==
    << "P", "o", "r", "t", "a", "r", "i", "a", " ", "n", ".", "ordm", " ",
       "5", "/", "2", "0", "2", "0" >>

\* s with a line feed put in after its k-th character
InsertLF(s, k) == SubSeq(s, 1, k) \o << "\n" >> \o SubSeq(s, k + 1, Len(s))

\* the positions of s where neither neighbour is whitespace
SplitPoints(s) == { k \in 1..(Len(s) - 1) : ~IsSpace(s[k]) /\ ~IsSpace(s[k + 1]) }

\* a Body that prints a roster DOC phrase broken over two lines, after its
\* ORG heading
SplitInputs ==
    { << pA \o << "\n" >> \o InsertLF(PortariaPhrase, k),
         << Entry(pA, << >>, << PortariaPhrase >>) >> >> :
      k \in SplitPoints(PortariaPhrase) }

BodyInputs ==
    (Texts(BodyAlphabet, MaxBodyLen) \X RosterChoices) \cup SplitInputs

\* the locals of detect_entities, build_relations and _merge_orphan_orgs
\* before they run
InitDoc ==
    /\ line_i = 0
    /\ state = "OUTSIDE"
    /\ spans = << >>
    /\ relations = << >>
    /\ current_org = None
    /\ last_suborg = None
    /\ last_org_by_norm = << >>
    /\ edge_id = 1
    /\ rel_k = 1
    /\ merged = << >>
    /\ merge_i = 0
    /\ renorm = << >>
    /\ sumario = None

InitCut ==
    /\ ents = << >>
    /\ seen_tokens = << >>
    /\ scan_k = 1
    /\ cut = -1

Init ==
    /\ \E inp \in BodyInputs : full_text = inp[1] /\ roster = inp[2]
    /\ InitCut
    /\ InitDoc
    /\ pc = "start"
    /\ norm_body = << >>
    /\ idx_map = << >>
    /\ org_cands = << >>
    /\ sub_cands = << >>
    /\ doc_cands = << >>
    /\ assigned_orgs = << >>
    /\ cursor = 0
    /\ sec_i = 1
    /\ sub_assignments = << >>
    /\ doc_assignments = << >>
    /\ body_items = << >>
    /\ order_idx = 1

----------------------------------------------------------------------------
(* The steps of build_body_via_sumario_spacy.                              *)

OrgPhrases == [k \in 1..Len(roster) |-> roster[k].org_text]
SubPhrases == Flatten([k \in 1..Len(roster) |-> roster[k].suborg_texts])
DocPhrases == Flatten([k \in 1..Len(roster) |-> roster[k].doc_texts])

\* step 1 (line 246)
BuildShadow ==
    /\ pc = "start"
    /\ LET r == BuildNormalizedWithMap(full_text)
       IN  /\ norm_body' = r.norm
           /\ idx_map' = r.idx_map
    /\ pc' = "gather"
    /\ UNCHANGED << docVars, cutVars, full_text, roster, org_cands, sub_cands, doc_cands,
                    assigned_orgs, cursor, sec_i, sub_assignments,
                    doc_assignments, body_items, order_idx >>

\* steps 2 and 3 (lines 249-268)
GatherCandidates ==
    /\ pc = "gather"
    /\ org_cands' = GatherRegexCandidates(norm_body, idx_map, OrgPhrases, TRUE, full_text)
    /\ sub_cands' = GatherRegexCandidates(norm_body, idx_map, SubPhrases, TRUE, full_text)
    /\ doc_cands' = GatherRegexCandidates(norm_body, idx_map, DocPhrases, FALSE, full_text)
    /\ pc' = IF roster = << >> THEN "section" ELSE "assign"
    /\ UNCHANGED << docVars, cutVars, full_text, roster, norm_body, idx_map, assigned_orgs, cursor,
                    sec_i, sub_assignments, doc_assignments, body_items, order_idx >>

\* step 4, one iteration of the loop of lines 280-289
AssignOrg ==
    /\ pc = "assign"
    /\ LET b      == roster[Len(assigned_orgs) + 1]
           chosen == FirstHitFrom(CandsOf(org_cands, b.org_text), cursor)
       IN  /\ assigned_orgs' = Append(assigned_orgs, chosen)
           /\ cursor' = IF chosen = None THEN cursor ELSE chosen[2]
    /\ pc' = IF Len(assigned_orgs) + 1 = Len(roster) THEN "section" ELSE "assign"
    /\ UNCHANGED << docVars, cutVars, full_text, roster, norm_body, idx_map, org_cands, sub_cands,
                    doc_cands, sec_i, sub_assignments, doc_assignments,
                    body_items, order_idx >>

SectionEnd == NextOrgStart(assigned_orgs, sec_i, Len(full_text))

\* lines 297-299: an unassigned ORG is passed over
SkipUnassigned ==
    /\ pc = "section"
    /\ sec_i <= Len(roster)
    /\ assigned_orgs[sec_i] = None
    /\ sec_i' = sec_i + 1
    /\ UNCHANGED << docVars, cutVars, full_text, roster, pc, norm_body, idx_map, org_cands,
                    sub_cands, doc_cands, assigned_orgs, cursor,
                    sub_assignments, doc_assignments, body_items, order_idx >>

\* lines 300-331: SUBORG and DOC assignment of the section
AssignSection ==
    /\ pc = "section"
    /\ sec_i <= Len(roster)
    /\ assigned_orgs[sec_i] # None
    /\ LET org_st == assigned_orgs[sec_i][1]
           org_en == assigned_orgs[sec_i][2]
       IN  /\ sub_assignments' = AssignSuborgs(roster[sec_i].suborg_texts, sub_cands,
                                               org_st, SectionEnd, org_st)
           /\ doc_assignments' = AssignDocs(roster[sec_i].doc_texts, doc_cands,
                                            org_en, SectionEnd, org_en)
    /\ pc' = IF doc_assignments' = << >> THEN "lookback" ELSE "slice_docs"
    /\ UNCHANGED << docVars, cutVars, full_text, roster, norm_body, idx_map, org_cands, sub_cands,
                    doc_cands, assigned_orgs, cursor, sec_i, body_items, order_idx >>

\* lines 333-343: the look-back retry
LookbackRetry ==
    /\ pc = "lookback"
    /\ LET org_en == assigned_orgs[sec_i][2]
       IN  doc_assignments' = LookbackDocs(roster[sec_i].doc_texts, doc_cands,
                                           Max(0, org_en - LookbackChars), org_en)
    /\ pc' = IF doc_assignments' = << >> THEN "slice_subs" ELSE "slice_docs"
    /\ UNCHANGED << docVars, cutVars, full_text, roster, norm_body, idx_map, org_cands, sub_cands,
                    doc_cands, assigned_orgs, cursor, sec_i, sub_assignments,
                    body_items, order_idx >>

\* lines 345-365: no DOC: slice by SUBORGs (nothing is emitted without any)
SliceBySuborgs ==
    /\ pc = "slice_subs"
    /\ body_items' = body_items \o SuborgItems(roster[sec_i], assigned_orgs[sec_i],
                                               sub_assignments, SectionEnd, order_idx)
    /\ order_idx' = order_idx + Len(sub_assignments)
    /\ sec_i' = sec_i + 1
    /\ pc' = "section"
    /\ UNCHANGED << docVars, cutVars, full_text, roster, norm_body, idx_map, org_cands, sub_cands,
                    doc_cands, assigned_orgs, cursor, sub_assignments,
                    doc_assignments >>

\* lines 367-421: slice by DOCs
SliceByDocs ==
    /\ pc = "slice_docs"
    /\ body_items' = body_items \o DocItems(roster[sec_i], assigned_orgs[sec_i],
                                            doc_assignments, SectionEnd, order_idx)
    /\ order_idx' = order_idx + Len(doc_assignments)
    /\ sec_i' = sec_i + 1
    /\ pc' = "section"
    /\ UNCHANGED << docVars, cutVars, full_text, roster, norm_body, idx_map, org_cands, sub_cands,
                    doc_cands, assigned_orgs, cursor, sub_assignments,
                    doc_assignments >>

\* line 423
Return ==
    /\ pc = "section"
    /\ sec_i > Len(roster)
    /\ pc' = "done"
    /\ UNCHANGED << docVars, cutVars, full_text, roster, norm_body, idx_map, org_cands, sub_cands,
                    doc_cands, assigned_orgs, cursor, sec_i, sub_assignments,
                    doc_assignments, body_items, order_idx >>

Next ==
    \/ BuildShadow
    \/ GatherCandidates
    \/ AssignOrg
    \/ SkipUnassigned
    \/ AssignSection
    \/ LookbackRetry
    \/ SliceBySuborgs
    \/ SliceByDocs
    \/ Return

Spec == Init /\ [][Next]_vars

----------------------------------------------------------------------------
(* Properties of build_body_via_sumario_spacy.                             *)

Slicing == pc \in { "slice_docs", "slice_subs" }

\* the end of the section at hand, in the words of the specification: the
\* start of the next assigned ORG in roster order, else the end of the text
LaterAssigned == { j \in (sec_i + 1)..Len(assigned_orgs) : assigned_orgs[j] # None }

SpecSectionEnd ==
    IF LaterAssigned = {} THEN Len(full_text)
    ELSE assigned_orgs[CHOOSE j \in LaterAssigned : \A j2 \in LaterAssigned : j <= j2][1]

\* C1: the slices of the returned BodyItems are ordered and do not overlap:
\* for any two items with order_index i < j, slice_end(i) <= slice_start(j).
C1_SlicesOrdered ==
    \A i, j \in 1..Len(body_items) :
        i < j => body_items[i].slice_end <= body_items[j].slice_start

\* a returned list with two items of one section and an item of another
C1_Witness ==
    /\ pc = "done"
    /\ \E i, j, k \in 1..Len(body_items) :
        /\ i < j
        /\ body_items[i].section_id = body_items[j].section_id
        /\ body_items[k].section_id # body_items[i].section_id

\* C2: the items carry order_index 1, 2, ..., n in list order, whichever
\* slicing mode produced them, and the counter is one past the last.
C2_OrderIndex ==
    /\ \A k \in 1..Len(body_items) : body_items[k].order_index = k
    /\ order_idx = Len(body_items) + 1

\* a returned list with a SUBORG-driven item and a DOC-driven item of
\* different sections
C2_Witness ==
    /\ pc = "done"
    /\ \E i, j \in 1..Len(body_items) :
        /\ body_items[i].relation = "CONTAINS"
        /\ body_items[j].relation = "SECTION_ITEM"
        /\ body_items[i].section_id # body_items[j].section_id

\* the candidates of the roster ORG about to be assigned
C3_Cands == CandsOf(org_cands, roster[Len(assigned_orgs) + 1].org_text)

C3_State ==
    /\ pc \in { "start", "gather" } => cursor = 0 /\ assigned_orgs = << >>
    /\ \A p \in DOMAIN org_cands : \A a, b \in 1..Len(org_cands[p]) :
           a < b => org_cands[p][a][1] <= org_cands[p][b][1]
    /\ \A i, j \in 1..Len(assigned_orgs) :
           (i < j /\ assigned_orgs[i] # None /\ assigned_orgs[j] # None)
           => /\ assigned_orgs[i][1] < assigned_orgs[j][1]
              /\ assigned_orgs[i][2] <= assigned_orgs[j][1]

C3_Step ==
    /\ cursor' >= cursor
    /\ pc # "assign" => assigned_orgs' = assigned_orgs /\ cursor' = cursor
    /\ pc = "assign" =>
         LET k  == Len(assigned_orgs) + 1
             ok == { j \in 1..Len(C3_Cands) : C3_Cands[j][1] >= cursor }
         IN  /\ Len(assigned_orgs') = k
             /\ SubSeq(assigned_orgs', 1, k - 1) = assigned_orgs
             /\ IF ok = {}
                THEN assigned_orgs'[k] = None /\ cursor' = cursor
                ELSE LET j == CHOOSE j \in ok : \A j2 \in ok : j <= j2
                     IN  /\ assigned_orgs'[k] = C3_Cands[j]
                         /\ cursor' = C3_Cands[j][2]
    /\ body_items' # body_items =>
         /\ assigned_orgs[sec_i] # None
         /\ \A n \in (Len(body_items) + 1)..Len(body_items') :
                << body_items'[n].org_start, body_items'[n].org_end >> = assigned_orgs[sec_i]

\* C3: roster ORGs are assigned in roster order with one cursor that starts
\* at 0 and never decreases; each ORG gets the first of its sorted candidates
\* with start >= cursor and the cursor moves to its end; an ORG without one
\* stays unassigned, leaves the cursor, is not retried and yields no item.
\* The assigned spans have strictly increasing starts and do not overlap.
C3_OrgAssignment == []C3_State /\ [][C3_Step]_vars

\* three roster ORGs, the middle one unassigned, the third assigned past a
\* candidate of its own that lies before the cursor
C3_Witness ==
    /\ pc = "done"
    /\ Len(assigned_orgs) = 3
    /\ assigned_orgs[1] # None
    /\ assigned_orgs[2] = None
    /\ assigned_orgs[3] # None
    /\ CandsOf(org_cands, roster[3].org_text)[1][1] < assigned_orgs[3][1]

C4_Step ==
    (Slicing /\ doc_assignments # << >>) =>
        LET d    == doc_assignments
            n    == Len(d)
            org  == assigned_orgs[sec_i]
            base == Len(body_items)
            it(k) == body_items'[base + k]
        IN  /\ \A k \in 1..(n - 1) : d[k][1] < d[k + 1][1]
            /\ Len(body_items') = base + n
            /\ SubSeq(body_items', 1, base) = body_items
            /\ \A k \in 1..n :
                 /\ it(k).relation = "SECTION_ITEM"
                 /\ it(k).org_start = org[1]
                 /\ it(k).doc_start = d[k][1]
                 /\ it(k).doc_end = d[k][2]
                 /\ it(k).slice_start = (IF k = 1 THEN org[1] ELSE d[k][1])
                 /\ it(k).slice_end = (IF k < n THEN d[k + 1][1] ELSE SpecSectionEnd)
            /\ it(1).slice_start = org[1]
            /\ it(n).slice_end = SpecSectionEnd
            /\ \A k \in 1..(n - 1) : it(k).slice_end = it(k + 1).slice_start

\* C4: an assigned ORG with n >= 1 DOC hits d1 < ... < dn yields exactly n
\* SECTION_ITEM items, [org_start, d2.start) (or [org_start, section_end)
\* when n = 1), [di.start, d(i+1).start), [dn.start, section_end), which
\* tile [org_start, section_end); section_end is the start of the next
\* assigned ORG in roster order, else the end of the body text.
C4_DocSlices == [][C4_Step]_vars

\* a section with two or more DOC-driven items that ends at the start of an
\* assigned ORG lying beyond an unassigned one
C4_Witness ==
    /\ pc = "done"
    /\ Len(assigned_orgs) = 3
    /\ assigned_orgs[1] # None
    /\ assigned_orgs[2] = None
    /\ assigned_orgs[3] # None
    /\ Len(body_items) >= 2
    /\ body_items[1].relation = "SECTION_ITEM"
    /\ body_items[2].relation = "SECTION_ITEM"
    /\ body_items[1].section_id = body_items[2].section_id
    /\ body_items[2].slice_end = assigned_orgs[3][1]
    /\ body_items[2].slice_end < Len(full_text)

Range(f) == { f[x] : x \in DOMAIN f }

C5_Step ==
    (Slicing /\ doc_assignments = << >> /\ sub_assignments # << >>) =>
        LET s    == sub_assignments
            n    == Len(s)
            base == Len(body_items)
            it(k) == body_items'[base + k]
        IN  /\ \A k \in 1..(n - 1) : s[k][1] < s[k + 1][1]
            /\ Len(body_items') = base + n
            /\ SubSeq(body_items', 1, base) = body_items
            /\ \A k \in 1..n :
                 /\ it(k).relation = "CONTAINS"
                 /\ it(k).slice_start = s[k][1]
                 /\ it(k).slice_end = (IF k < n THEN s[k + 1][1] ELSE SpecSectionEnd)
                 /\ it(k).doc_start = s[k][1]
                 /\ it(k).doc_end = s[k][2]
                 /\ it(k).doc_title \in Range(roster[sec_i].suborg_texts)
                 /\ << s[k][1], s[k][2] >> \in Range(CandsOf(sub_cands, it(k).doc_title))

\* C5: an assigned ORG without any DOC assignment and with k >= 1 SUBORG
\* assignments s1 < ... < sk yields exactly k CONTAINS items; item i has
\* slice [si.start, s(i+1).start), the last ends at section_end, doc_start
\* and doc_end are the SUBORG hit's offsets and doc_title is the roster
\* suborg phrase.
C5_SuborgSlices == [][C5_Step]_vars

\* two SUBORG-driven items of one section
C5_Witness ==
    /\ pc = "done"
    /\ \E i \in 1..(Len(body_items) - 1) :
        /\ body_items[i].relation = "CONTAINS"
        /\ body_items[i + 1].relation = "CONTAINS"
        /\ body_items[i].section_id = body_items[i + 1].section_id

\* the claim's reading of a span that passes for ALL-CAPS: no blank line,
\* and every whitespace-delimited token with a letter has no lower-case one
C6_SpanOk(text) ==
    /\ ~HasBlankLine(text)
    /\ LET toks == SplitWs(text, << >>)
       IN  \A k \in 1..Len(toks) : \A i \in 1..Len(toks[k]) :
               IsAlpha(toks[k][i]) => toks[k][i] = Upper(toks[k][i])

\* C6: for every returned BodyItem the original body text in
\* [org_start, org_end) has no blank line and no token with a lower-case
\* letter, and so has [doc_start, doc_end) of every CONTAINS item.
C6_AllCapsOutput ==
    \A k \in 1..Len(body_items) :
        LET it == body_items[k]
        IN  /\ C6_SpanOk(Slice(full_text, it.org_start, it.org_end))
            /\ it.relation = "CONTAINS"
               => C6_SpanOk(Slice(full_text, it.doc_start, it.doc_end))

\* C7: no zero-length or inverted span is emitted: every returned BodyItem
\* has 0 <= slice_start < slice_end <= len(body_text), org_start < org_end
\* and doc_start < doc_end.
C7_NoEmptySlice ==
    \A k \in 1..Len(body_items) :
        LET it == body_items[k]
        IN  /\ 0 <= it.slice_start
            /\ it.slice_start < it.slice_end
            /\ it.slice_end <= Len(full_text)
            /\ it.org_start < it.org_end
            /\ it.doc_start < it.doc_end

\* C8: a roster phrase printed in the Body with a line break at a point
\* where the phrase has no whitespace is found by _gather_regex_candidates
\* as one candidate covering the whole split occurrence.
C8_SplitPhraseFound ==
    pc \notin { "start", "gather" } =>
        \A p \in Range(DocPhrases) : \A k \in SplitPoints(p) :
            LET occ == InsertLF(p, k)
            IN  \A off \in 0..(Len(full_text) - Len(occ)) :
                    Slice(full_text, off, off + Len(occ)) = occ
                    => << off, off + Len(occ) >> \in Range(CandsOf(doc_cands, p))

----------------------------------------------------------------------------
(* A heading carried from the Summary to the Body: the Segmenter stores    *)
(* the whitespace-collapsed heading in the Roster (segmenter.py, lines     *)
(* 229-234) and the Re-Anchorer looks for it in a Body that prints the     *)
(* heading verbatim.                                                       *)

MaxHeadingLen == 3

HeadingAlphabet == { "A", "B", " ", "\n", "-", "nbsp", "Aacute", "ordm" }

\* "CULTU-\nRA"
CulturaHeading == << "C", "U", "L", "T", "U", "-", "\n", "R", "A" >>

HeadingTexts ==
    { t \in Texts(HeadingAlphabet, MaxHeadingLen) \cup { CulturaHeading } :
        \E i \in 1..Len(t) : ~IsSpace(t[i]) }

\* _collapse_ws (segmenter.py, lines 86-87)
CollapseWs(s) == JoinSpace(SplitWs(s, << >>))

InitHeading ==
    /\ full_text \in HeadingTexts
    /\ roster = << >>
    /\ pc = "heading"
    /\ InitCut
    /\ InitDoc
    /\ norm_body = << >>
    /\ idx_map = << >>
    /\ org_cands = << >>
    /\ sub_cands = << >>
    /\ doc_cands = << >>
    /\ assigned_orgs = << >>
    /\ cursor = 0
    /\ sec_i = 1
    /\ sub_assignments = << >>
    /\ doc_assignments = << >>
    /\ body_items = << >>
    /\ order_idx = 1

\* segmenter.py, lines 229-234: the roster entry of the heading
StoreHeading ==
    /\ pc = "heading"
    /\ roster' = << Entry(CollapseWs(full_text), << >>, << >>) >>
    /\ pc' = "start"
    /\ UNCHANGED << full_text, bodyVars, cutVars, docVars >>

NextHeading == StoreHeading \/ BuildShadow \/ GatherCandidates

SpecHeading == InitHeading /\ [][NextHeading]_vars

\* C9: for every heading text t with a non-space character, the regex that
\* _normalize_phrase_for_regex compiles from the whitespace-collapsed t
\* matches the shadow that _build_normalized_with_map builds for a Body
\* consisting of t verbatim.
C9_PhraseMatchesShadow ==
    pc = "assign" =>
        FindIter(norm_body, NormalizePhraseForRegex(roster[1].org_text), 0) # << >>

----------------------------------------------------------------------------
(* _find_body_start_with_first_repeated_org (segmenter.py, lines 11-25 and *)
(* 149-166).                                                               *)

MinShared == 5

\* str.upper
UpperStr(s) == [i \in 1..Len(s) |-> Upper(s[i])]

\* str.strip(",.;:")
IsTrimPunct(c) == c \in { ",", ".", ";", ":" }

RECURSIVE StripPunct(_)
StripPunct(s) ==
    IF s # << >> /\ IsTrimPunct(Head(s)) THEN StripPunct(Tail(s))
    ELSE IF s # << >> /\ IsTrimPunct(s[Len(s)]) THEN StripPunct(SubSeq(s, 1, Len(s) - 1))
    ELSE s

\* _norm_org_tokens
NormOrgTokens(s) ==
    SplitWs(StripPunct(UpperStr(StripDiacritics(CollapseWs(s)))), << >>)

\* _is_token_prefix(a, b, min_shared=5)
IsTokenPrefix(a, b) ==
    IF a = << >> \/ b = << >> THEN FALSE
    ELSE LET m == Min(Len(a), Len(b))
         IN  IF m < MinShared THEN FALSE
             ELSE SubSeq(a, 1, m) = SubSeq(b, 1, m)

\* sorted(doc.ents, key=lambda e: (e.start_char, -e.end_char)): insertion of
\* e into a sorted list
RECURSIVE InsertEnt(_, _)
InsertEnt(sorted, e) ==
    IF sorted = << >> THEN << e >>
    ELSE LET x == Head(sorted)
         IN  IF e.start_char < x.start_char
                \/ (e.start_char = x.start_char /\ e.end_char > x.end_char)
             THEN << e >> \o sorted
             ELSE << x >> \o InsertEnt(Tail(sorted), e)

\* _ents_in_order
RECURSIVE EntsInOrder(_)
EntsInOrder(es) ==
    IF es = << >> THEN << >>
    ELSE InsertEnt(EntsInOrder(SubSeq(es, 1, Len(es) - 1)), es[Len(es)])

MaxEnts == 4

\* heading lengths around the threshold of _is_token_prefix
HeadingLens == { MinShared - 1, MinShared, MinShared + 1 }

\* an ORG heading of n one-letter tokens, the last of them v
Heading(n, v) == JoinSpace([k \in 1..n |-> IF k = n THEN << v >> ELSE << "A" >>])

\* the lines of a document: ORG headings, and a DOC label
LineChoices ==
    { [label |-> "ORG", text |-> Heading(n, v)] :
        n \in HeadingLens, v \in { "A", "B", "Aacute" } }
    \cup { [label |-> "DOC", text |-> << "a" >>] }

\* the text of a document made of these lines, one per line
RECURSIVE JoinLines(_)
JoinLines(ls) ==
    IF ls = << >> THEN << >>
    ELSE ls[1].text \o << "\n" >> \o JoinLines(Tail(ls))

\* doc.ents: the span of each line in the text
EntsOf(ls) ==
    [ k \in 1..Len(ls) |->
        LET st == Len(JoinLines(SubSeq(ls, 1, k - 1)))
        IN  [ label |-> ls[k].label, text |-> ls[k].text,
              start_char |-> st, end_char |-> st + Len(ls[k].text) ] ]

InitCutDoc ==
    /\ \E ls \in UNION { [1..n -> LineChoices] : n \in 0..MaxEnts } :
        /\ full_text = JoinLines(ls)
        /\ ents = EntsOf(ls)
    /\ seen_tokens = << >>
    /\ scan_k = 1
    /\ cut = -1
    /\ InitDoc
    /\ pc = "scan"
    /\ roster = << >>
    /\ norm_body = << >>
    /\ idx_map = << >>
    /\ org_cands = << >>
    /\ sub_cands = << >>
    /\ doc_cands = << >>
    /\ assigned_orgs = << >>
    /\ cursor = 0
    /\ sec_i = 1
    /\ sub_assignments = << >>
    /\ doc_assignments = << >>
    /\ body_items = << >>
    /\ order_idx = 1

Scanned == EntsInOrder(ents)

\* lines 161-163: cur repeats one of the ORGs seen so far
RepeatsSeen(cur) ==
    \E k \in 1..Len(seen_tokens) :
        IsTokenPrefix(cur, seen_tokens[k][1]) \/ IsTokenPrefix(seen_tokens[k][1], cur)

\* lines 157-158: an entity that is no ORG is passed over
SkipNonOrg ==
    /\ pc = "scan"
    /\ scan_k <= Len(Scanned)
    /\ Scanned[scan_k].label # "ORG"
    /\ scan_k' = scan_k + 1
    /\ UNCHANGED << full_text, roster, pc, bodyVars, docVars, ents, seen_tokens, cut >>

\* lines 159-164: the ORG repeats an earlier one: the Body starts here
RepeatFound ==
    /\ pc = "scan"
    /\ scan_k <= Len(Scanned)
    /\ Scanned[scan_k].label = "ORG"
    /\ RepeatsSeen(NormOrgTokens(Scanned[scan_k].text))
    /\ cut' = Scanned[scan_k].start_char
    /\ pc' = "cut_done"
    /\ UNCHANGED << full_text, roster, bodyVars, docVars, ents, seen_tokens, scan_k >>

\* line 165: the ORG is remembered
RememberOrg ==
    /\ pc = "scan"
    /\ scan_k <= Len(Scanned)
    /\ Scanned[scan_k].label = "ORG"
    /\ ~RepeatsSeen(NormOrgTokens(Scanned[scan_k].text))
    /\ seen_tokens' = Append(seen_tokens,
                             << NormOrgTokens(Scanned[scan_k].text),
                                Scanned[scan_k].start_char >>)
    /\ scan_k' = scan_k + 1
    /\ UNCHANGED << full_text, roster, pc, bodyVars, docVars, ents, cut >>

\* mutant: without a repeat the cut is the start of the text
NoRepeatCutAtStart ==
    /\ pc = "scan"
    /\ scan_k > Len(Scanned)
    /\ cut' = 0
    /\ pc' = "cut_done"
    /\ UNCHANGED << full_text, roster, bodyVars, docVars, ents, seen_tokens, scan_k >>

\* line 166: no repeat: the cut is the end of the text
NoRepeat ==
    /\ pc = "scan"
    /\ scan_k > Len(Scanned)
    /\ cut' = Len(full_text)
    /\ pc' = "cut_done"
    /\ UNCHANGED << full_text, roster, bodyVars, docVars, ents, seen_tokens, scan_k >>

NextCut == SkipNonOrg \/ RepeatFound \/ RememberOrg \/ NoRepeat

SpecCut == InitCutDoc /\ [][NextCut]_vars

OrgIdx == { k \in 1..Len(ents) : ents[k].label = "ORG" }

MinOf(S) == CHOOSE x \in S : \A y \in S : x <= y

\* the ORG spans that print the heading of an earlier ORG span again
C10_VerbatimRepeats ==
    { j \in OrgIdx : \E i \in OrgIdx :
        i < j /\ NormOrgTokens(ents[i].text) = NormOrgTokens(ents[j].text) }

\* one token list is a prefix of the other and they share 5 tokens or more
C10_Related(a, b) ==
    LET m == Min(Len(a), Len(b))
    IN  m >= 5 /\ \A k \in 1..m : a[k] = b[k]

C10_Repeats ==
    { j \in OrgIdx : \E i \in OrgIdx :
        i < j /\ C10_Related(NormOrgTokens(ents[i].text), NormOrgTokens(ents[j].text)) }

\* C10 as stated: whenever an ORG heading occurs a second time, cut_index is
\* the start of the first ORG span that repeats an earlier ORG heading
\* (verbatim, or by the prefix rule), however many tokens the heading has.
C10_CutAtFirstRepeat ==
    (pc = "cut_done" /\ C10_VerbatimRepeats # {})
    => cut = ents[MinOf(C10_VerbatimRepeats \cup C10_Repeats)].start_char

\* what the code computes: cut_index is the start of the first ORG span, in
\* text order, whose normalized token list is a prefix of, or is prefixed by,
\* that of an earlier ORG span with at least 5 shared tokens; it is len(text)
\* when there is none, a heading of fewer than 5 tokens printed twice included.
CutAtFirstLongRepeat ==
    pc = "cut_done" =>
        cut = (IF C10_Repeats = {} THEN Len(full_text)
               ELSE ents[MinOf(C10_Repeats)].start_char)

----------------------------------------------------------------------------
(* Entity Detector (entities.py): the vocabulary and the line predicates.  *)

\* HEADER_STARTERS (lines 13-19)
HEADER_STARTERS ==
    { <<"A","P","R","A","M">>, <<"A","S","S","E","M","B","L","E","I","A">>,
      <<"C","A","M","A","R","A">>,
      <<"C","O","N","S","E","R","V","A","T","O","R","I","A">>,
      <<"C","O","N","S","E","R","V","A","T","Oacute","R","I","A">>,
      <<"C","Acirc","M","A","R","A">>,
      <<"D","I","R","E","C","Ccedil","Atilde","O">>,
      <<"D","I","R","E","Ccedil","Atilde","O">>,
      <<"M","U","N","I","C","I","P","I","O">>,
      <<"P","R","E","S","I","D","E","N","C","I","A">>,
      <<"P","R","E","S","I","D","E","N","C","I","A"," ","D","O"," ","G","O","V","E","R","N","O">>,
      <<"P","R","E","S","I","D","Ecirc","N","C","I","A">>,
      <<"P","R","E","S","I","D","Ecirc","N","C","I","A"," ","D","O"," ","G","O","V","E","R","N","O">>,
      <<"S","E","C","R","E","T","A","R","I","A">>,
      <<"S","E","C","R","E","T","A","R","I","A","S">>,
      <<"T","R","I","B","U","N","A","L">>,
      <<"V","I","C","E","-","P","R","E","S","I","D","E","N","C","I","A">>,
      <<"V","I","C","E","-","P","R","E","S","I","D","Ecirc","N","C","I","A">> }

\* STOPWORDS_UP (line 22)
STOPWORDS_UP ==
    { <<"A">>, <<"C","O","M">>, <<"D","A">>, <<"D","A","S">>, <<"D","E">>,
      <<"D","O">>, <<"D","O","S">>, <<"E">>, <<"E","M">>, <<"N","A">>,
      <<"N","A","S">>, <<"N","O">>, <<"N","O","S">>, <<"O">>,
      <<"P","A","R","A">> }

\* DOC_LABELS_SECTION (lines 25-35)
DOC_LABELS_SECTION ==
    { <<"A","N","U","N","C","I","O">>,
      <<"A","N","U","N","C","I","O"," ","(","R","E","S","U","M","O",")">>,
      <<"A","N","Uacute","N","C","I","O">>,
      <<"A","N","Uacute","N","C","I","O"," ","(","R","E","S","U","M","O",")">>,
      <<"A","V","I","S","O">>, <<"A","V","I","S","O","S">>,
      <<"C","E","S","S","A","C","A","O">>,
      <<"C","E","S","S","A","Ccedil","Atilde","O">>,
      <<"C","O","N","T","R","A","T","O">>,
      <<"C","O","N","V","E","R","T","I","D","O">>,
      <<"C","O","N","V","O","C","A","T","O","R","I","A">>,
      <<"C","O","N","V","O","C","A","T","Oacute","R","I","A">>,
      <<"D","E","C","L","A","R","A","C","A","O">>,
      <<"D","E","C","L","A","R","A","Ccedil","Atilde","O">>,
      <<"D","E","C","R","E","T","O">>,
      <<"D","E","C","R","E","T","O"," ","R","E","G","U","L","A","M","E","N","T","A","R"," ","R","E","G","I","O","N","A","L">>,
      <<"D","E","L","I","B","E","R","A","C","A","O">>,
      <<"D","E","L","I","B","E","R","A","Ccedil","Atilde","O">>,
      <<"D","E","S","P","A","C","H","O">>,
      <<"D","E","S","P","A","C","H","O"," ","C","O","N","J","U","N","T","O">>,
      <<"E","D","I","T","A","L">>, <<"L","I","S","T","A">>,
      <<"L","I","S","T","A","S">>, <<"M","U","D","A","N","C","A">>,
      <<"M","U","D","A","N","Ccedil","A">>, <<"P","O","R","T","A","R","I","A">>,
      <<"R","E","C","T","I","F","I","C","A","C","A","O">>,
      <<"R","E","C","T","I","F","I","C","A","Ccedil","Atilde","O">>,
      <<"R","E","S","O","L","U","C","A","O">>,
      <<"R","E","S","O","L","U","Ccedil","Atilde","O">>,
      <<"R","E","T","I","F","I","C","A","C","A","O">>,
      <<"R","E","T","I","F","I","C","A","Ccedil","Atilde","O">>,
      <<"R","E","V","O","G","A","C","A","O">>,
      <<"R","E","V","O","G","A","Ccedil","Atilde","O">> }

\* CONTINUATION_CONTENT_NOUNS (lines 44-47)
CONTINUATION_CONTENT_NOUNS ==
    { <<"A","M","B","I","E","N","T","E">>, <<"A","S","S","U","N","T","O","S">>,
      <<"C","U","L","T","U","R","A">>, <<"E","D","U","C","A","C","A","O">>,
      <<"E","D","U","C","A","Ccedil","Atilde","O">>,
      <<"F","I","N","A","N","C","A","S">>,
      <<"F","I","N","A","N","Ccedil","A","S">>, <<"H","U","M","A","N","O","S">>,
      <<"P","L","A","N","O">>, <<"R","E","C","U","R","S","O","S">>,
      <<"S","O","C","I","A","I","S">>,
      <<"T","R","A","N","S","P","O","R","T","E","S">>,
      <<"T","R","I","B","U","N","A","L">>, <<"T","U","R","I","S","M","O">> }

\* the prefixes of the numbered forms (is_doc_label_line, line 101)
NumberedLabelHeads ==
    { <<"D","E","S","P","A","C","H","O">>,
      <<"D","E","C","L","A","R","A","Ccedil","Atilde","O">>,
      <<"D","E","C","L","A","R","A","C","A","O">>,
      <<"R","E","T","I","F","I","C","A","Ccedil","Atilde","O">>,
      <<"R","E","C","T","I","F","I","C","A","Ccedil","Atilde","O">>,
      <<"A","V","I","S","O">>, <<"A","V","I","S","O","S">>,
      <<"E","D","I","T","A","L">>, <<"A","N","Uacute","N","C","I","O">>,
      <<"A","N","U","N","C","I","O">>,
      <<"R","E","V","O","G","A","Ccedil","Atilde","O">>,
      <<"R","E","V","O","G","A","C","A","O">>,
      <<"C","O","N","T","R","A","T","O">>, <<"D","E","C","R","E","T","O">>,
      <<"R","E","S","O","L","U","Ccedil","Atilde","O">>,
      <<"R","E","S","O","L","U","C","A","O">>,
      <<"P","O","R","T","A","R","I","A">> }

\* the number markers (is_doc_label_line, line 102)
NumberMarkers ==
    { <<"N",".","ordm">>, <<"N","ordm">>, <<"N","deg">>, <<"N",".","O">>,
      <<"N",".","O",".">> }

\* the joiners a previous line may end with (is_header_continuation, line 127)
PrevJoiners ==
    { <<" ","E">>, <<" ","D","O">>, <<" ","D","A">>, <<" ","D","E">>,
      <<" ","D","O","S">>, <<" ","D","A","S">> }

\* the punctuation a previous line may end with (is_header_continuation, line 129)
PrevPunct ==
    { <<",">>, <<"-">>, <<"ndash">> }


\* the characters that encode("ascii", "ignore") drops after NFKD
NonAscii ==
    { "lstrok", "Lstrok", "ndash", "deg", "ordf", "hellip", "nbsp" }

\* str.islower of one character (U+00BA and U+00AA are lowercase letters)
IsLower(c) == c \in LowerLetters \cup { "ordm", "ordf" }

\* \w of the re module
IsWordChar(c) ==
    IsAlpha(c) \/ c \in { "0", "1", "2", "3", "4", "5", "6", "7", "8", "9", "_" }

\* unicodedata.normalize("NFKD", w).encode("ascii", "ignore").decode()
RECURSIVE AsciiFold(_)
AsciiFold(w) ==
    IF w = << >> THEN << >>
    ELSE SelectSeq(StripDiacriticsChar(Head(w)), LAMBDA x : x \notin NonAscii)
         \o AsciiFold(Tail(w))

\* str.strip(chars)
RECURSIVE LStripChars(_, _)
LStripChars(s, chars) ==
    IF s # << >> /\ Head(s) \in chars THEN LStripChars(Tail(s), chars) ELSE s

RECURSIVE RStripChars(_, _)
RStripChars(s, chars) ==
    IF s # << >> /\ s[Len(s)] \in chars
    THEN RStripChars(SubSeq(s, 1, Len(s) - 1), chars) ELSE s

StripChars(s, chars) == RStripChars(LStripChars(s, chars), chars)

\* str.startswith, str.endswith, the operator in on strings
StartsWith(s, prefix) ==
    Len(prefix) <= Len(s) /\ SubSeq(s, 1, Len(prefix)) = prefix

EndsWith(s, suffix) ==
    Len(suffix) <= Len(s) /\ SubSeq(s, Len(s) - Len(suffix) + 1, Len(s)) = suffix

Contains(s, sub) ==
    \E k \in 1..(Len(s) - Len(sub) + 1) : SubSeq(s, k, k + Len(sub) - 1) = sub

\* any(ch.isalpha() for ch in w)
AnyAlpha(w) == \E k \in 1..Len(w) : IsAlpha(w[k])

\* has_lowercase_letter
has_lowercase_letter(line) ==
    LET s == Strip(line)
    IN  \E k \in 1..Len(s) : IsAlpha(s[k]) /\ IsLower(s[k])

\* line_offsets: text.splitlines(keepends=True) with the offsets of each line;
\* cur is the line being read and st its start
RECURSIVE LineOffsetsFrom(_, _, _, _)
LineOffsetsFrom(text, k, st, cur) ==
    IF k > Len(text)
    THEN (IF cur = << >> THEN << >>
          ELSE << [start |-> st, end |-> st + Len(cur), ln |-> cur] >>)
    ELSE IF text[k] = "\n" \/ (text[k] = "\r" /\ ~(k < Len(text) /\ text[k + 1] = "\n"))
         THEN << [start |-> st, end |-> k, ln |-> Append(cur, text[k])] >>
              \o LineOffsetsFrom(text, k + 1, k, << >>)
         ELSE LineOffsetsFrom(text, k + 1, st, Append(cur, text[k]))

line_offsets(text) == LineOffsetsFrom(text, 1, 0, << >>)

\* is_blank
is_blank(line) == Strip(line) = << >>

\* first_alpha_word_upper
RECURSIVE FirstAlphaWord(_)
FirstAlphaWord(ws) ==
    IF ws = << >> THEN << >>
    ELSE IF AnyAlpha(Head(ws))
         THEN StripChars(UpperStr(AsciiFold(Head(ws))), { ",", ".", ";", ":", "-" })
         ELSE FirstAlphaWord(Tail(ws))

first_alpha_word_upper(line) == FirstAlphaWord(SplitWs(Strip(line), << >>))

\* starts_with_header_starter
starts_with_header_starter(line) ==
    LET up == UpperStr(Strip(line))
    IN  IF up = << >> THEN FALSE
        ELSE \/ first_alpha_word_upper(up) \in HEADER_STARTERS
             \/ \E st \in HEADER_STARTERS : StartsWith(up, st)

\* RX_CONTRATO_SOC = (?is)\bcontrato\s*de\s*sociedade\b, matched at position k
ContratoWord  == << "C", "O", "N", "T", "R", "A", "T", "O" >>
DeWord        == << "D", "E" >>
SociedadeWord == << "S", "O", "C", "I", "E", "D", "A", "D", "E" >>

RECURSIVE SkipWs(_, _)
SkipWs(s, k) == IF k <= Len(s) /\ IsSpace(s[k]) THEN SkipWs(s, k + 1) ELSE k

WordAt(s, k, w) == k + Len(w) - 1 <= Len(s) /\ UpperStr(SubSeq(s, k, k + Len(w) - 1)) = w

ContratoSocAt(s, k) ==
    /\ IF k = 1 THEN TRUE ELSE ~IsWordChar(s[k - 1])
    /\ WordAt(s, k, ContratoWord)
    /\ LET k2 == SkipWs(s, k + Len(ContratoWord))
       IN  /\ WordAt(s, k2, DeWord)
           /\ LET k3 == SkipWs(s, k2 + Len(DeWord))
                  k4 == k3 + Len(SociedadeWord)
              IN  /\ WordAt(s, k3, SociedadeWord)
                  /\ IF k4 > Len(s) THEN TRUE ELSE ~IsWordChar(s[k4])

\* RX_CONTRATO_SOC.search(s)
RX_CONTRATO_SOC(s) == \E k \in 1..Len(s) : ContratoSocAt(s, k)

\* is_doc_label_line
is_doc_label_line(line) ==
    LET up   == UpperStr(Strip(line))
        head == JoinSpace(SplitWs(up, << >>))
    IN  IF up = << >> THEN FALSE
        ELSE \/ head \in DOC_LABELS_SECTION
             \/ /\ \E h \in NumberedLabelHeads : StartsWith(head, h)
                /\ \E nm \in NumberMarkers : Contains(head, nm)
             \/ RX_CONTRATO_SOC(up)

\* content_token_count
content_token_count(line) ==
    LET toks    == SelectSeq(SplitWs(Strip(line), << >>), AnyAlpha)
        toks_up == [k \in 1..Len(toks) |->
                      StripChars(UpperStr(AsciiFold(toks[k])), { ",", ".", ";", ":" })]
    IN  Cardinality({ k \in 1..Len(toks_up) : toks_up[k] \notin STOPWORDS_UP })

\* is_header_continuation
is_header_continuation(prev_line, curr_line) ==
    IF is_blank(curr_line) THEN FALSE
    ELSE LET curr_up == UpperStr(Strip(curr_line))
             parts   == SplitWs(curr_up, << >>)
             prev_up == UpperStr(Strip(prev_line))
         IN  \/ /\ parts # << >>
                /\ parts[1] \in STOPWORDS_UP
                /\ content_token_count(curr_up) >= 1
             \/ \E j \in PrevJoiners : EndsWith(prev_up, j)
             \/ \E q \in PrevPunct : EndsWith(prev_up, q)
             \/ /\ parts # << >>
                /\ parts[1] \in STOPWORDS_UP
                /\ \E noun \in CONTINUATION_CONTENT_NOUNS : Contains(curr_up, noun)

\* a span of doc.ents: offsets, label and the text they cover
SpanOf(text, start, end, label) ==
    [text |-> Slice(text, start, end), start_char |-> start, end_char |-> end,
     label |-> label]

\* char_span: the span, or no span when its text is blank (a line starts and
\* ends at token boundaries, so alignment_mode="expand" leaves the offsets)
char_span(text, start, end, label) ==
    IF Strip(Slice(text, start, end)) # << >>
    THEN << SpanOf(text, start, end, label) >> ELSE << >>

----------------------------------------------------------------------------
(* detect_entities (entities.py, lines 171-304): one action per iteration  *)
(* of the while loop over the lines, then the dedupe and overlap filter.   *)

max_header_lines == 4
LookaheadLines == 2
MaxAbsorbedLines == 2

\* the inner loop that absorbs the continuation lines of a header (lines
\* 202-212 in OUTSIDE, 232-242 in IN_SECTION, where gate is TRUE: a line with
\* a lowercase letter stops it); lines is 1-based here, j 0-based
RECURSIVE AbsorbHeader(_, _, _, _, _, _)
AbsorbHeader(lines, j, prev_ln, header_end, header_lines, gate) ==
    IF ~(j < Len(lines) /\ header_lines < max_header_lines)
    THEN [j |-> j, header_end |-> header_end]
    ELSE LET ln_j == lines[j + 1].ln
         IN  IF \/ is_blank(ln_j)
                \/ is_doc_label_line(ln_j)
                \/ starts_with_header_starter(ln_j)
                \/ (gate /\ has_lowercase_letter(ln_j))
             THEN [j |-> j, header_end |-> header_end]
             ELSE IF is_header_continuation(prev_ln, ln_j)
                  THEN AbsorbHeader(lines, j + 1, ln_j, lines[j + 1].end,
                                    header_lines + 1, gate)
                  ELSE [j |-> j, header_end |-> header_end]

\* close_header (lines 182-188): the ORG span of the header, if any
close_header(text, header_start, header_end) ==
    IF header_end > header_start
    THEN char_span(text, header_start, header_end, "ORG") ELSE << >>

\* the look-ahead for "Contrato de sociedade" (lines 262-272)
RECURSIVE LookAhead(_, _, _)
LookAhead(lines, j, steps) ==
    IF ~(steps < LookaheadLines /\ j < Len(lines)) THEN FALSE
    ELSE LET la_line == UpperStr(Strip(lines[j + 1].ln))
         IN  IF RX_CONTRATO_SOC(la_line) THEN TRUE
             ELSE IF starts_with_header_starter(la_line) \/ is_doc_label_line(la_line)
                  THEN FALSE
                  ELSE LookAhead(lines, j + 1, steps + 1)

\* promote_secondary (lines 256-272)
PromoteSecondary(lines, i) ==
    LET ln == lines[i + 1].ln
    IN  /\ ~is_blank(ln)
        /\ ~has_lowercase_letter(ln)
        /\ \/ content_token_count(ln) >= 4 /\ ~starts_with_header_starter(ln)
           \/ LookAhead(lines, i + 1, 0)

\* mutant: the scan resumes right after the promoted line, not after the
\* lines it absorbed
RECURSIVE AbsorbSecondaryRescan(_, _, _, _)
AbsorbSecondaryRescan(lines, j, block_end, consumed) ==
    IF ~(consumed < MaxAbsorbedLines /\ j < Len(lines))
    THEN [j |-> j - consumed, block_end |-> block_end]
    ELSE LET ln_j == lines[j + 1].ln
         IN  IF \/ is_blank(ln_j)
                \/ starts_with_header_starter(ln_j)
                \/ is_doc_label_line(ln_j)
                \/ has_lowercase_letter(ln_j)
             THEN [j |-> j - consumed, block_end |-> block_end]
             ELSE AbsorbSecondaryRescan(lines, j + 1, lines[j + 1].end, consumed + 1)

\* the lines absorbed after a promoted line (lines 276-285)
RECURSIVE AbsorbSecondary(_, _, _, _)
AbsorbSecondary(lines, j, block_end, consumed) ==
    IF ~(consumed < MaxAbsorbedLines /\ j < Len(lines))
    THEN [j |-> j, block_end |-> block_end]
    ELSE LET ln_j == lines[j + 1].ln
         IN  IF \/ is_blank(ln_j)
                \/ starts_with_header_starter(ln_j)
                \/ is_doc_label_line(ln_j)
                \/ has_lowercase_letter(ln_j)
             THEN [j |-> j, block_end |-> block_end]
             ELSE AbsorbSecondary(lines, j + 1, lines[j + 1].end, consumed + 1)

\* the dedupe by (start, end, label) of lines 297-303, first occurrence kept
RECURSIVE Dedupe(_, _)
Dedupe(sps, uniq) ==
    IF sps = << >> THEN uniq
    ELSE LET sp == Head(sps)
         IN  IF \E k \in 1..Len(uniq) :
                    /\ uniq[k].start_char = sp.start_char
                    /\ uniq[k].end_char = sp.end_char
                    /\ uniq[k].label = sp.label
             THEN Dedupe(Tail(sps), uniq)
             ELSE Dedupe(Tail(sps), Append(uniq, sp))

\* sorted(spans, key=(length, -start), reverse=True): stable insertion
LongerFirst(a, b) ==
    \/ a.end_char - a.start_char > b.end_char - b.start_char
    \/ /\ a.end_char - a.start_char = b.end_char - b.start_char
       /\ a.start_char < b.start_char

RECURSIVE InsertLonger(_, _)
InsertLonger(sorted, sp) ==
    IF sorted = << >> THEN << sp >>
    ELSE IF LongerFirst(sp, Head(sorted))
         THEN << sp >> \o sorted
         ELSE << Head(sorted) >> \o InsertLonger(Tail(sorted), sp)

RECURSIVE SortLonger(_)
SortLonger(sps) ==
    IF sps = << >> THEN << >>
    ELSE InsertLonger(SortLonger(SubSeq(sps, 1, Len(sps) - 1)), sps[Len(sps)])

\* the greedy pass of spacy.util.filter_spans: a span is kept when neither
\* its first nor its last position is covered by a span kept before it
RECURSIVE KeepSpans(_, _, _)
KeepSpans(sorted, result, seen) ==
    IF sorted = << >> THEN result
    ELSE LET sp == Head(sorted)
         IN  IF sp.start_char \notin seen /\ (sp.end_char - 1) \notin seen
             THEN KeepSpans(Tail(sorted), Append(result, sp),
                            seen \cup (sp.start_char..(sp.end_char - 1)))
             ELSE KeepSpans(Tail(sorted), result, seen)

\* sorted(result, key=lambda span: span.start): stable insertion
RECURSIVE InsertByStart(_, _)
InsertByStart(sorted, sp) ==
    IF sorted = << >> THEN << sp >>
    ELSE IF sp.start_char < Head(sorted).start_char
         THEN << sp >> \o sorted
         ELSE << Head(sorted) >> \o InsertByStart(Tail(sorted), sp)

RECURSIVE SortByStart(_)
SortByStart(sps) ==
    IF sps = << >> THEN << >>
    ELSE InsertByStart(SortByStart(SubSeq(sps, 1, Len(sps) - 1)), sps[Len(sps)])

\* mutant: every candidate is kept, sorted by start
filter_spans_keep_all(sps) == SortByStart(sps)

\* spacy.util.filter_spans(uniq): the kept spans, sorted by start
filter_spans(sps) == SortByStart(KeepSpans(SortLonger(sps), << >>, {}))

\* the line at hand
Lines == line_offsets(full_text)
CurLine == Lines[line_i + 1]

Detecting == pc = "detect" /\ line_i < Len(Lines)

\* lines 193-195: a blank line outside any section
OutsideBlank ==
    /\ Detecting
    /\ state = "OUTSIDE"
    /\ is_blank(CurLine.ln)
    /\ line_i' = line_i + 1
    /\ UNCHANGED << full_text, roster, pc, bodyVars, cutVars, state, spans,
                    relVars, mergeVars, renorm, sumario >>

\* lines 196-216: the first header; its continuation lines are absorbed
\* without the lowercase test
OutsideHeader ==
    /\ Detecting
    /\ state = "OUTSIDE"
    /\ ~is_blank(CurLine.ln)
    /\ starts_with_header_starter(CurLine.ln)
    /\ ~has_lowercase_letter(CurLine.ln)
    /\ LET r == AbsorbHeader(Lines, line_i + 1, CurLine.ln, CurLine.end, 1, FALSE)
       IN  /\ line_i' = r.j
           /\ spans' = spans \o close_header(full_text, CurLine.start, r.header_end)
    /\ state' = "IN_SECTION"
    /\ UNCHANGED << full_text, roster, pc, bodyVars, cutVars, relVars,
                    mergeVars, renorm, sumario >>

\* lines 217-223: any other line outside a section
OutsideOther ==
    /\ Detecting
    /\ state = "OUTSIDE"
    /\ ~is_blank(CurLine.ln)
    /\ ~(starts_with_header_starter(CurLine.ln) /\ ~has_lowercase_letter(CurLine.ln))
    /\ line_i' = line_i + 1
    /\ UNCHANGED << full_text, roster, pc, bodyVars, cutVars, state, spans,
                    relVars, mergeVars, renorm, sumario >>

\* the test of line 226
IsSectionHeader(ln) ==
    starts_with_header_starter(ln) /\ ~is_blank(ln) /\ ~has_lowercase_letter(ln)

\* lines 226-246: a new header inside a section
SectionHeader ==
    /\ Detecting
    /\ state = "IN_SECTION"
    /\ IsSectionHeader(CurLine.ln)
    /\ LET r == AbsorbHeader(Lines, line_i + 1, CurLine.ln, CurLine.end, 1, TRUE)
       IN  /\ line_i' = r.j
           /\ spans' = spans \o close_header(full_text, CurLine.start, r.header_end)
    /\ state' = "IN_SECTION"
    /\ UNCHANGED << full_text, roster, pc, bodyVars, cutVars, relVars,
                    mergeVars, renorm, sumario >>

\* lines 248-253: a DOC label line
DocLabelLine ==
    /\ Detecting
    /\ state = "IN_SECTION"
    /\ ~IsSectionHeader(CurLine.ln)
    /\ is_doc_label_line(CurLine.ln)
    /\ spans' = spans \o char_span(full_text, CurLine.start, CurLine.end, "DOC")
    /\ line_i' = line_i + 1
    /\ UNCHANGED << full_text, roster, pc, bodyVars, cutVars, state, relVars,
                    mergeVars, renorm, sumario >>

\* lines 255-291: a line promoted to ORG_SECUNDARIA, with the lines it absorbs
SecondaryLine ==
    /\ Detecting
    /\ state = "IN_SECTION"
    /\ ~IsSectionHeader(CurLine.ln)
    /\ ~is_doc_label_line(CurLine.ln)
    /\ PromoteSecondary(Lines, line_i)
    /\ LET r == AbsorbSecondary(Lines, line_i + 1, CurLine.end, 0)
       IN  /\ line_i' = r.j
           /\ spans' = spans \o char_span(full_text, CurLine.start, r.block_end,
                                          "ORG_SECUNDARIA")
    /\ UNCHANGED << full_text, roster, pc, bodyVars, cutVars, state, relVars,
                    mergeVars, renorm, sumario >>

\* lines 293-294: plain text
PlainText ==
    /\ Detecting
    /\ state = "IN_SECTION"
    /\ ~IsSectionHeader(CurLine.ln)
    /\ ~is_doc_label_line(CurLine.ln)
    /\ ~PromoteSecondary(Lines, line_i)
    /\ line_i' = line_i + 1
    /\ UNCHANGED << full_text, roster, pc, bodyVars, cutVars, state, spans,
                    relVars, mergeVars, renorm, sumario >>

\* lines 296-304, and doc.ents = detect_entities(doc) (main.py, line 32)
DedupeAndFilter ==
    /\ pc = "detect"
    /\ line_i >= Len(Lines)
    /\ ents' = filter_spans(Dedupe(spans, << >>))
    /\ pc' = "relations"
    /\ UNCHANGED << full_text, roster, bodyVars, seen_tokens, scan_k, cut,
                    docVars >>

----------------------------------------------------------------------------
(* build_relations (relations.py, lines 13-97): one action per entity.     *)

COMPANY_DOC_CHAR_WINDOW == 300

\* _norm
Norm(s) ==
    StripChars(UpperStr(Strip(JoinSpace(SplitWs(s, << >>)))), { ",", ".", ";", ":" })

\* mutant: an edge is filed under the offset of its own tail
EdgeUnderTail(id, rel, head, tail, section_id) ==
    [id |-> id, relation |-> rel,
     head_label |-> head.label, tail_label |-> tail.label,
     head_offsets |-> [start |-> head.start_char, end |-> head.end_char],
     tail_offsets |-> [start |-> tail.start_char, end |-> tail.end_char],
     section_id |-> tail.start_char]

\* an edge of doc._.relations
Edge(id, rel, head, tail, section_id) ==
    [id |-> id, relation |-> rel,
     head_label |-> head.label, tail_label |-> tail.label,
     head_offsets |-> [start |-> head.start_char, end |-> head.end_char],
     tail_offsets |-> [start |-> tail.start_char, end |-> tail.end_char],
     section_id |-> section_id]

\* ents of line 26, and the entity of the iteration at hand
RelEnts == EntsInOrder(ents)
RelEnt == RelEnts[rel_k]

Relating == pc = "relations" /\ rel_k <= Len(RelEnts)

\* lines 35-55
RelOrg ==
    /\ Relating
    /\ RelEnt.label = "ORG"
    /\ LET key == Norm(RelEnt.text)
       IN  IF key \in DOMAIN last_org_by_norm
           THEN LET prev == last_org_by_norm[key]
                IN  /\ IF prev.start_char # RelEnt.start_char
                       THEN /\ relations' = Append(relations,
                                   Edge(edge_id, "SAME_AS", prev, RelEnt, prev.start_char))
                            /\ edge_id' = edge_id + 1
                       ELSE UNCHANGED << relations, edge_id >>
                    /\ UNCHANGED last_org_by_norm
           ELSE /\ last_org_by_norm' =
                       [k \in DOMAIN last_org_by_norm \cup { key } |->
                           IF k = key THEN RelEnt ELSE last_org_by_norm[k]]
                /\ UNCHANGED << relations, edge_id >>
    /\ current_org' = RelEnt
    /\ last_suborg' = None
    /\ rel_k' = rel_k + 1
    /\ UNCHANGED << full_text, roster, pc, bodyVars, cutVars, entVars,
                    mergeVars, renorm, sumario >>

\* lines 57-70
RelSuborg ==
    /\ Relating
    /\ RelEnt.label = "ORG_SECUNDARIA"
    /\ IF current_org # None
       THEN /\ relations' = Append(relations,
                   Edge(edge_id, "CONTAINS", current_org, RelEnt, current_org.start_char))
            /\ edge_id' = edge_id + 1
       ELSE UNCHANGED << relations, edge_id >>
    /\ last_suborg' = RelEnt
    /\ rel_k' = rel_k + 1
    /\ UNCHANGED << full_text, roster, pc, bodyVars, cutVars, entVars,
                    current_org, last_org_by_norm, mergeVars, renorm, sumario >>

\* mutant: the window excludes its upper bound
InWindowStrict(suborg, ent) ==
    suborg # None /\ ent.start_char - suborg.end_char < COMPANY_DOC_CHAR_WINDOW

\* the test of line 86
InWindow(suborg, ent) ==
    suborg # None /\ ent.start_char - suborg.end_char <= COMPANY_DOC_CHAR_WINDOW

\* lines 72-97
RelDoc ==
    /\ Relating
    /\ RelEnt.label = "DOC"
    /\ LET item == IF current_org # None
                   THEN << Edge(edge_id, "SECTION_ITEM", current_org, RelEnt,
                                current_org.start_char) >>
                   ELSE << >>
           id2  == edge_id + Len(item)
           has  == IF InWindow(last_suborg, RelEnt)
                   THEN << Edge(id2, "HAS_DOCUMENT", last_suborg, RelEnt,
                                IF current_org # None THEN current_org.start_char
                                ELSE None) >>
                   ELSE << >>
       IN  /\ relations' = relations \o item \o has
           /\ edge_id' = id2 + Len(has)
    /\ rel_k' = rel_k + 1
    /\ UNCHANGED << full_text, roster, pc, bodyVars, cutVars, entVars,
                    current_org, last_suborg, last_org_by_norm, mergeVars, renorm, sumario >>

\* the end of the loop of line 34
RelDone ==
    /\ pc = "relations"
    /\ rel_k > Len(RelEnts)
    /\ pc' = "rel_done"
    /\ UNCHANGED << full_text, roster, bodyVars, cutVars, docVars >>

----------------------------------------------------------------------------
(* The Entity Detector followed by the Relation Builder (main.py, lines    *)
(* 32-33) on documents of up to MaxLines lines.                            *)

MaxLines == 3

\* the lines a document is made of: headers, continuation lines in either
\* case, DOC labels (exact, with a colon, numbered), a blank line, prose,
\* all-caps company lines and the "Contrato de sociedade" anchor
DocLineChoices ==
    { <<"A","P","R","A","M","\n">>, <<"A","P","R","A","M"," ","D","E","\n">>,
      <<"d","o"," ","p","l","a","n","o","\n">>,
      <<"D","O"," ","P","L","A","N","O","\n">>, <<"A","V","I","S","O","\n">>,
      <<"A","v","i","s","o",":","\n">>,
      <<"A","v","i","s","o"," ","n",".","o"," ","5","\n">>, <<"\n">>,
      <<"A","b"," ","c","d","\n">>, <<"B"," ","C"," ","D"," ","F","\n">>,
      <<"B"," ","C","\n">>,
      <<"C","o","n","t","r","a","t","o"," ","d","e"," ","s","o","c","i","e","d","a","d","e","\n">> }

\* the text of Scenario 1 of the specification
Scenario1Text ==
    <<"S","E","C","R","E","T","A","R","I","A"," ","R","E","G","I","O","N","A","L","\n","D","e","s","p","a","c","h","o",":","\n","F","o","o"," ","B","a","r"," ","L","t","d"," ","-"," ","A","u","t","o","r","i","z","a","ccedil","atilde","o",".",".",".",".",".",".",".",".",".",".",".","\n">>

DocTexts ==
    { Flatten(ls) : ls \in UNION { [1..n -> DocLineChoices] : n \in 0..MaxLines } }
        \cup { Scenario1Text }

\* the locals of build_body_via_sumario_spacy before it runs
InitBody ==
    /\ norm_body = << >>
    /\ idx_map = << >>
    /\ org_cands = << >>
    /\ sub_cands = << >>
    /\ doc_cands = << >>
    /\ assigned_orgs = << >>
    /\ cursor = 0
    /\ sec_i = 1
    /\ sub_assignments = << >>
    /\ doc_assignments = << >>
    /\ body_items = << >>
    /\ order_idx = 1

InitDetect ==
    /\ full_text \in DocTexts
    /\ roster = << >>
    /\ pc = "detect"
    /\ InitBody
    /\ InitCut
    /\ InitDoc

NextDetect ==
    \/ OutsideBlank
    \/ OutsideHeader
    \/ OutsideOther
    \/ SectionHeader
    \/ DocLabelLine
    \/ SecondaryLine
    \/ PlainText
    \/ DedupeAndFilter
    \/ RelOrg
    \/ RelSuborg
    \/ RelDoc
    \/ RelDone

SpecDetect == InitDetect /\ [][NextDetect]_vars

\* the steps of the line scanner
Scan ==
    \/ OutsideBlank
    \/ OutsideHeader
    \/ OutsideOther
    \/ SectionHeader
    \/ DocLabelLine
    \/ SecondaryLine
    \/ PlainText
    \/ DedupeAndFilter

\* detect_entities is a sequential loop that nothing suspends: weak fairness
\* of Scan, written with its enabling condition. While pc = "detect" one of
\* the steps of Scan can be taken: the three cases of OUTSIDE and the four of
\* IN_SECTION are exhaustive for a line that is left, and DedupeAndFilter
\* takes over when none is
ScanFair == []<>(pc # "detect") \/ []<><<Scan>>_vars

SpecDetectFair == SpecDetect /\ ScanFair

----------------------------------------------------------------------------
(* Claims on the Entity Detector and the Relation Builder (SpecDetect).    *)

\* the labels of the spans of doc.ents, in order
EntLabels == [k \in 1..Len(ents) |-> ents[k].label]

\* a line that prints a word of the DOC vocabulary, alone or followed by a
\* colon ("Despacho", "Despacho:")
C11_LabelLine(ln) ==
    StripChars(JoinSpace(SplitWs(UpperStr(Strip(ln)), << >>)), { ":" })
        \in DOC_LABELS_SECTION

\* a line of prose: upper and lower case, neither a header nor a label
C11_TextLine(ln) ==
    /\ has_lowercase_letter(ln)
    /\ \E k \in 1..Len(ln) : ln[k] \in UpperLetters
    /\ ~starts_with_header_starter(ln)
    /\ ~C11_LabelLine(ln)

\* the document is a header line, a label line and a line of prose
C11_Form ==
    /\ Len(Lines) = 3
    /\ starts_with_header_starter(Lines[1].ln)
    /\ ~has_lowercase_letter(Lines[1].ln)
    /\ C11_LabelLine(Lines[2].ln)
    /\ C11_TextLine(Lines[3].ln)

\* C11: on a document made of an all-caps header line, a document-label line
\* such as "Despacho:" and a line of mixed-case text, the entities are one ORG
\* over line 1 and one DOC over line 2, and the only relation is one
\* SECTION_ITEM from that ORG to that DOC.
C11_HeaderLabelText ==
    (pc = "rel_done" /\ C11_Form) =>
        /\ EntLabels = << "ORG", "DOC" >>
        /\ ents[1].start_char = Lines[1].start /\ ents[1].end_char = Lines[1].end
        /\ ents[2].start_char = Lines[2].start /\ ents[2].end_char = Lines[2].end
        /\ Len(relations) = 1
        /\ relations[1].relation = "SECTION_ITEM"
        /\ relations[1].head_offsets = [start |-> ents[1].start_char, end |-> ents[1].end_char]
        /\ relations[1].tail_offsets = [start |-> ents[2].start_char, end |-> ents[2].end_char]

\* the physical lines that the span sp covers
LinesOf(sp) ==
    { k \in 1..Len(Lines) :
        sp.start_char <= Lines[k].start /\ Lines[k].end <= sp.end_char }

\* C12: no line with a lowercase letter is part of an ORG or ORG_SECUNDARIA
\* span, as its first line or as an absorbed line, in either scanner state.
C12_LowercaseGate ==
    \A n \in 1..Len(spans) :
        spans[n].label \in { "ORG", "ORG_SECUNDARIA" } =>
            \A k \in LinesOf(spans[n]) : ~has_lowercase_letter(Lines[k].ln)

----------------------------------------------------------------------------
(* _merge_orphan_orgs (segmenter.py, lines 105-124): one action per        *)
(* iteration of its while loop, on rosters of up to MaxRoster entries.     *)

MaxRoster == 4

\* has_payload (line 115)
HasPayload(e) == e.suborg_texts # << >> \/ e.doc_texts # << >>

\* the entries a roster is drawn from: two orphans and two entries with a
\* payload
MergeEntries ==
    { Entry(pA, << >>, << >>), Entry(pB, << >>, << >>),
      Entry(pA, << pB >>, << >>), Entry(pB, << >>, << pa >>) }

InitMerge ==
    /\ roster \in UNION { [1..n -> MergeEntries] : n \in 0..MaxRoster }
    /\ full_text = << >>
    /\ pc = "merge"
    /\ InitBody
    /\ InitCut
    /\ InitDoc

\* lines 116-120: an orphan that has a next entry is merged into it, and both
\* are consumed
MergeOrphan ==
    /\ pc = "merge"
    /\ merge_i < Len(roster)
    /\ LET cur == roster[merge_i + 1]
       IN  /\ ~HasPayload(cur)
           /\ merge_i + 1 < Len(roster)
           /\ LET nxt == roster[merge_i + 2]
              IN  merged' = Append(merged,
                      [nxt EXCEPT !.org_text =
                          CollapseWs(cur.org_text \o << " " >> \o nxt.org_text)])
    /\ merge_i' = merge_i + 2
    /\ UNCHANGED << full_text, roster, pc, bodyVars, cutVars, entVars, relVars,
                    renorm, sumario >>

\* lines 121-123: any other entry is kept
KeepEntry ==
    /\ pc = "merge"
    /\ merge_i < Len(roster)
    /\ LET cur == roster[merge_i + 1]
       IN  /\ ~(~HasPayload(cur) /\ merge_i + 1 < Len(roster))
           /\ merged' = Append(merged, cur)
    /\ merge_i' = merge_i + 1
    /\ UNCHANGED << full_text, roster, pc, bodyVars, cutVars, entVars, relVars,
                    renorm, sumario >>

\* line 124
MergeReturn ==
    /\ pc = "merge"
    /\ merge_i >= Len(roster)
    /\ pc' = "merged"
    /\ UNCHANGED << full_text, roster, bodyVars, cutVars, docVars >>

NextMerge == MergeOrphan \/ KeepEntry \/ MergeReturn

SpecMerge == InitMerge /\ [][NextMerge]_vars

\* C13: after _merge_orphan_orgs every orphan entry that had a following entry
\* has been merged into it (text = orphan text, a space, the next text; payload
\* = the next entry's), so no entry of the result but possibly the last has an
\* empty payload, runs of consecutive orphans included.
C13_OrphansMerged ==
    pc = "merged" =>
        /\ \A k \in 1..(Len(merged) - 1) : HasPayload(merged[k])
        /\ \A i \in 1..(Len(roster) - 1) :
               ~HasPayload(roster[i]) =>
                   \E k \in 1..Len(merged) :
                       /\ EndsWith(merged[k].org_text,
                              CollapseWs(roster[i].org_text \o << " " >>
                                         \o roster[i + 1].org_text))
                       /\ HasPayload(merged[k]) = HasPayload(roster[i + 1])

----------------------------------------------------------------------------
(* A section without DOC and SUBORG hits (body_refind.py, lines 333-365).  *)

\* the roster entry i has a Body span, and neither a DOC (in its section or in
\* the look-back window) nor a SUBORG is assigned to it
C14_NoDriver(i) ==
    /\ i <= Len(assigned_orgs)
    /\ assigned_orgs[i] # None
    /\ LET org_st      == assigned_orgs[i][1]
           org_en      == assigned_orgs[i][2]
           section_end == NextOrgStart(assigned_orgs, i, Len(full_text))
       IN  /\ AssignSuborgs(roster[i].suborg_texts, sub_cands, org_st,
                            section_end, org_st) = << >>
           /\ AssignDocs(roster[i].doc_texts, doc_cands, org_en,
                         section_end, org_en) = << >>
           /\ LookbackDocs(roster[i].doc_texts, doc_cands,
                           Max(0, org_en - LookbackChars), org_en) = << >>

C14_Handled(i) ==
    /\ Len(assigned_orgs) = Len(roster)
    /\ pc \in { "section", "done" }
    /\ i < sec_i

\* C14: an ORG with a Body span to which no DOC (in its section or in the
\* look-back window) and no SUBORG is assigned yields no BodyItem, and no
\* order_index is consumed: the counter stays one past the number of items.
C14_NoItemsWithoutDriver ==
    /\ \A i \in 1..Len(roster) :
           C14_Handled(i) /\ C14_NoDriver(i) =>
               \A n \in 1..Len(body_items) :
                   body_items[n].org_start # assigned_orgs[i][1]
    /\ pc \in { "section", "done" } => order_idx = Len(body_items) + 1

C14_Witness ==
    /\ pc = "done"
    /\ body_items # << >>
    /\ \E i \in 1..Len(roster) : C14_Handled(i) /\ C14_NoDriver(i)

----------------------------------------------------------------------------
(* _build_normalized_with_map as a function of its argument                *)
(* (body_refind.py, lines 66-161): it is applied to a text, and then to    *)
(* the normalized string it returned.                                      *)

MaxNormLen == 5

NormAlphabet == { "A", " ", "\n", "-", "hellip", "Aacute" }

InitNorm ==
    /\ full_text \in Texts(NormAlphabet, MaxNormLen)
    /\ roster = << >>
    /\ pc = "normalize"
    /\ InitBody
    /\ InitCut
    /\ InitDoc

\* norm, idx_map = _build_normalized_with_map(full_text)
Normalize ==
    /\ pc = "normalize"
    /\ LET r == BuildNormalizedWithMap(full_text)
       IN  /\ norm_body' = r.norm
           /\ idx_map' = r.idx_map
    /\ pc' = "renormalize"
    /\ UNCHANGED << docVars, cutVars, full_text, roster, org_cands, sub_cands, doc_cands,
                    assigned_orgs, cursor, sec_i, sub_assignments,
                    doc_assignments, body_items, order_idx >>

\* _build_normalized_with_map(norm)[0]
Renormalize ==
    /\ pc = "renormalize"
    /\ renorm' = BuildNormalizedWithMap(norm_body).norm
    /\ pc' = "normalized"
    /\ UNCHANGED << bodyVars, cutVars, full_text, roster, entVars, relVars,
                    mergeVars, sumario >>

NextNorm == Normalize \/ Renormalize

SpecNorm == InitNorm /\ [][NextNorm]_vars

\* C16: the index map has one entry per character of the normalized string,
\* every entry is an offset into the original text (0 <= idx_map[i] <
\* len(original)), and the entries never decrease.
C16_IndexMapValid ==
    pc \in { "renormalize", "normalized" } =>
        /\ Len(idx_map) = Len(norm_body)
        /\ \A i \in 1..Len(idx_map) : 0 <= idx_map[i] /\ idx_map[i] < Len(full_text)
        /\ \A i \in 1..(Len(idx_map) - 1) : idx_map[i] <= idx_map[i + 1]

\* C17: normalizing the normalized string returns it unchanged.
C17_Idempotent == pc = "normalized" => renorm = norm_body

\* the normalization did something: it healed a hyphen and line break, folded
\* case and collapsed whitespace
C17_Witness ==
    /\ pc = "normalized"
    /\ renorm = norm_body
    /\ \E i \in 1..(Len(full_text) - 1) : full_text[i] = "-" /\ full_text[i + 1] = "\n"
    /\ \E i \in 1..Len(full_text) : full_text[i] = " "
    /\ \E i \in 1..Len(norm_body) : norm_body[i] = "a"
    /\ Len(norm_body) < Len(full_text) - 2

----------------------------------------------------------------------------
(* build_relations on documents whose entities lie up to a window apart    *)
(* (relations.py, lines 25-97).                                            *)

MaxRelEnts == 4

\* the distance from the end of one entity to the start of the next
RelGaps == { 1, COMPANY_DOC_CHAR_WINDOW, COMPANY_DOC_CHAR_WINDOW + 1 }

RelLabels == { "ORG", "ORG_SECUNDARIA", "DOC" }

\* the text between two entities: a line break, or a line of prose
Filler(g) == [ i \in 1..g |-> IF i = 1 \/ i = g THEN "\n" ELSE "a" ]

\* the document of the entity lines ls (label, gap before the line), each
\* entity being the one-letter line "A"
RECURSIVE RelText(_)
RelText(ls) ==
    IF ls = << >> THEN << >>
    ELSE RelText(SubSeq(ls, 1, Len(ls) - 1))
         \o Filler(ls[Len(ls)].gap) \o << "A" >>

RelEntsOf(ls) ==
    [ k \in 1..Len(ls) |->
        LET en == Len(RelText(SubSeq(ls, 1, k)))
        IN  [ label |-> ls[k].label, text |-> << "A" >>,
              start_char |-> en - 1, end_char |-> en ] ]

\* doc.ents as detect_entities leaves them: the first entity is an ORG at the
\* start of the text
InitRel ==
    /\ \E n \in 1..MaxRelEnts :
       \E ls \in [1..n -> [label : RelLabels, gap : RelGaps \cup { 0 }]] :
        /\ ls[1] = [label |-> "ORG", gap |-> 0]
        /\ \A k \in 2..n : ls[k].gap # 0
        /\ full_text = RelText(ls)
        /\ ents = RelEntsOf(ls)
    /\ roster = << >>
    /\ pc = "relations"
    /\ InitBody
    /\ seen_tokens = << >>
    /\ scan_k = 1
    /\ cut = -1
    /\ InitDoc

NextRel == RelOrg \/ RelSuborg \/ RelDoc \/ RelDone

SpecRel == InitRel /\ [][NextRel]_vars

\* the index of the last entity with that label before the k-th, 0 if none
LastBefore(label, k) ==
    LET S == { j \in 1..(k - 1) : RelEnts[j].label = label }
    IN  IF S = {} THEN 0 ELSE CHOOSE j \in S : \A i \in S : i <= j

\* relation, head and tail of an edge
C18_Ends(e) == << e.relation, e.head_offsets, e.tail_offsets >>

C18_EndsOf(rel, head, tail) ==
    << rel, [start |-> head.start_char, end |-> head.end_char],
       [start |-> tail.start_char, end |-> tail.end_char] >>

\* the edges the claim expects for the DOC entity k
C18_Expected(k) ==
    LET o == LastBefore("ORG", k)
        u == LastBefore("ORG_SECUNDARIA", k)
        d == RelEnts[k]
    IN  (IF o # 0 THEN << C18_EndsOf("SECTION_ITEM", RelEnts[o], d) >> ELSE << >>)
        \o (IF u > o /\ d.start_char - RelEnts[u].end_char <= COMPANY_DOC_CHAR_WINDOW
            THEN << C18_EndsOf("HAS_DOCUMENT", RelEnts[u], d) >> ELSE << >>)

C18_Step ==
    (Relating /\ RelEnt.label = "DOC") =>
        /\ Len(relations') = Len(relations) + Len(C18_Expected(rel_k))
        /\ SubSeq(relations', 1, Len(relations)) = relations
        /\ \A n \in 1..Len(C18_Expected(rel_k)) :
               C18_Ends(relations'[Len(relations) + n]) = C18_Expected(rel_k)[n]

C18_Count ==
    pc = "rel_done" =>
        Cardinality({ n \in 1..Len(relations) : relations[n].relation = "SECTION_ITEM" })
        = Cardinality({ k \in 1..Len(RelEnts) :
                          RelEnts[k].label = "DOC" /\ LastBefore("ORG", k) # 0 })

\* C18: each DOC entity gets exactly one SECTION_ITEM edge from the most
\* recent ORG (when there is one) and, if and only if an ORG_SECUNDARIA was seen
\* since that ORG and doc.start - suborg.end <= 300, exactly one HAS_DOCUMENT
\* edge from the most recent ORG_SECUNDARIA; nothing is deduplicated, so there
\* are as many SECTION_ITEM edges as DOC entities after an ORG.
C18_DocEdges == []C18_Count /\ [][C18_Step]_vars

\* a finished run with a HAS_DOCUMENT edge at the very end of the window, and a
\* DOC beyond the window or after a later ORG, which has a SECTION_ITEM only
C18_Witness ==
    /\ pc = "rel_done"
    /\ \E n \in 1..Len(relations) :
           /\ relations[n].relation = "HAS_DOCUMENT"
           /\ relations[n].tail_offsets.start - relations[n].head_offsets.end
              = COMPANY_DOC_CHAR_WINDOW
    /\ Cardinality({ n \in 1..Len(relations) : relations[n].relation = "SECTION_ITEM" })
       > Cardinality({ n \in 1..Len(relations) : relations[n].relation = "HAS_DOCUMENT" })

\* the index in scan order of the entity an edge ends at
TailIdx(e) == CHOOSE k \in 1..Len(RelEnts) : RelEnts[k].start_char = e.tail_offsets.start

\* the start of the nearest ORG before the tail of the edge in scan order
NearestOrgStart(e) ==
    LET o == LastBefore("ORG", TailIdx(e))
    IN  IF o = 0 THEN None ELSE RelEnts[o].start_char

----------------------------------------------------------------------------
(* The end of detect_entities (entities.py, lines 296-304) on any list of  *)
(* candidate spans.  The line scanner itself leaves disjoint candidates    *)
(* (CandidatesDisjoint), so the dedupe and the overlap filter are checked  *)
(* on candidate lists of up to MaxSpans spans of a two-line text.          *)

MaxSpans == 3

FilterText == << "A", "\n", "B" >>

\* the spans char_span can return on FilterText
Candidates ==
    { sp \in [ text : Texts({ "A", "\n", "B" }, Len(FilterText)),
               start_char : 0..Len(FilterText), end_char : 0..Len(FilterText),
               label : { "ORG", "DOC" } ] :
        /\ sp.start_char < sp.end_char
        /\ << sp >> = char_span(FilterText, sp.start_char, sp.end_char, sp.label) }

InitFilter ==
    /\ full_text = FilterText
    /\ roster = << >>
    /\ pc = "detect"
    /\ InitBody
    /\ InitCut
    /\ line_i = Len(line_offsets(FilterText))
    /\ state = "IN_SECTION"
    /\ spans \in UNION { [1..n -> Candidates] : n \in 0..MaxSpans }
    /\ relations = << >>
    /\ current_org = None
    /\ last_suborg = None
    /\ last_org_by_norm = << >>
    /\ edge_id = 1
    /\ rel_k = 1
    /\ merged = << >>
    /\ merge_i = 0
    /\ renorm = << >>
    /\ sumario = None

NextFilter == DedupeAndFilter

SpecFilter == InitFilter /\ [][NextFilter]_vars

\* the candidates of the line scanner never overlap
CandidatesDisjoint ==
    \A m, n \in 1..Len(spans) :
        m < n => spans[m].end_char <= spans[n].start_char

Overlap(a, b) == a.start_char < b.end_char /\ b.start_char < a.end_char

SpanLen(a) == a.end_char - a.start_char

\* C20: the spans returned by detect_entities are candidates, no two of them
\* overlap, no two of them have the same (start, end, label), and a candidate
\* that was dropped overlaps a returned span that is at least as long.
C20_NoOverlap ==
    pc = "relations" =>
        /\ \A m \in 1..Len(ents) : \E n \in 1..Len(spans) : ents[m] = spans[n]
        /\ \A m, n \in 1..Len(ents) : m # n => ~Overlap(ents[m], ents[n])
        /\ \A m, n \in 1..Len(ents) :
               m # n => << ents[m].start_char, ents[m].end_char, ents[m].label >>
                        # << ents[n].start_char, ents[n].end_char, ents[n].label >>
        /\ \A n \in 1..Len(spans) :
               (\A m \in 1..Len(ents) : ents[m] # spans[n]) =>
                   \E m \in 1..Len(ents) :
                       /\ Overlap(ents[m], spans[n])
                       /\ SpanLen(ents[m]) >= SpanLen(spans[n])

\* three candidates, two of them equal and one overlapping them: one span of
\* the overlapping cluster is returned
C20_Witness ==
    /\ pc = "relations"
    /\ Len(spans) = 3
    /\ \E m, n \in 1..Len(spans) : m # n /\ spans[m] = spans[n]
    /\ \E m, n \in 1..Len(spans) :
           /\ Overlap(spans[m], spans[n])
           /\ SpanLen(spans[m]) > SpanLen(spans[n])
    /\ Len(ents) = 1

----------------------------------------------------------------------------
(* build_sumario_and_body (segmenter.py, lines 169-245) and the roster     *)
(* post-processing it calls.                                               *)

\* _norm_org
norm_org(s) == StripPunct(UpperStr(StripDiacritics(CollapseWs(s))))

\* _filter_ents_in_span(doc, a, b): per label, the entities inside [a, b]
filter_ents_in_span(a, b) ==
    [ lab \in { "ORG", "DOC", "ORG_SECUNDARIA" } |->
        LET In(e) == a <= e.start_char /\ e.end_char <= b /\ e.label = lab
        IN  EntsInOrder(SelectSeq(ents, In)) ]

\* _filter_relations_in_span(doc, a, b): head and tail start inside [a, b)
filter_relations_in_span(a, b) ==
    LET In(r) == /\ a <= r.head_offsets.start /\ r.head_offsets.start < b
                 /\ a <= r.tail_offsets.start /\ r.tail_offsets.start < b
    IN  SelectSeq(relations, In)

\* ent_text_by_offsets.get((st, en, lab), "")
EntTextByOffsets(sum_ents, off, lab) ==
    LET S == { k \in 1..Len(sum_ents[lab]) :
                 /\ sum_ents[lab][k].start_char = off.start
                 /\ sum_ents[lab][k].end_char = off.end }
    IN  IF S = {} THEN << >> ELSE sum_ents[lab][CHOOSE k \in S : TRUE].text

\* sorted(..., key=lambda p: p[0]) of tail offsets: stable insertion
RECURSIVE InsertOffset(_, _)
InsertOffset(sorted, off) ==
    IF sorted = << >> THEN << off >>
    ELSE IF off.start < Head(sorted).start
         THEN << off >> \o sorted
         ELSE << Head(sorted) >> \o InsertOffset(Tail(sorted), off)

RECURSIVE SortOffsets(_)
SortOffsets(offs) ==
    IF offs = << >> THEN << >>
    ELSE InsertOffset(SortOffsets(SubSeq(offs, 1, Len(offs) - 1)), offs[Len(offs)])

\* org_to_sub / org_to_doc (lines 197-211): the tails of the Summary edges of
\* one kind whose head is the ORG at (st, en), by increasing start
TailsOf(sum_rels, rel, org) ==
    LET Of(r) == /\ r.relation = rel
                 /\ r.head_offsets.start = org.start_char
                 /\ r.head_offsets.end = org.end_char
        rs == SelectSeq(sum_rels, Of)
    IN  SortOffsets([ k \in 1..Len(rs) |-> rs[k].tail_offsets ])

HasComma(t) == \E k \in 1..Len(t) : t[k] = ","

\* one roster entry per Summary ORG, DOC texts with a comma included
RosterOrgsKeepCommas(sum_ents, sum_rels) ==
    LET orgs_ordered == EntsInOrder(sum_ents["ORG"])
    IN  [ k \in 1..Len(orgs_ordered) |->
            LET org  == orgs_ordered[k]
                subs == TailsOf(sum_rels, "CONTAINS", org)
                docs == TailsOf(sum_rels, "SECTION_ITEM", org)
            IN  Entry(CollapseWs(org.text),
                      [ n \in 1..Len(subs) |->
                          CollapseWs(EntTextByOffsets(sum_ents, subs[n], "ORG_SECUNDARIA")) ],
                      [ n \in 1..Len(docs) |->
                          CollapseWs(EntTextByOffsets(sum_ents, docs[n], "DOC")) ]) ]

\* lines 214-233: one roster entry per Summary ORG
RosterOrgs(sum_ents, sum_rels) ==
    LET orgs_ordered == EntsInOrder(sum_ents["ORG"])
    IN  [ k \in 1..Len(orgs_ordered) |->
            LET org  == orgs_ordered[k]
                subs == TailsOf(sum_rels, "CONTAINS", org)
                docs == TailsOf(sum_rels, "SECTION_ITEM", org)
                sub_texts == [ n \in 1..Len(subs) |->
                                 EntTextByOffsets(sum_ents, subs[n], "ORG_SECUNDARIA") ]
                all_docs  == [ n \in 1..Len(docs) |->
                                 EntTextByOffsets(sum_ents, docs[n], "DOC") ]
                NoComma(t) == ~HasComma(t)
                doc_texts == SelectSeq(all_docs, NoComma)
            IN  Entry(CollapseWs(org.text),
                      [ n \in 1..Len(sub_texts) |-> CollapseWs(sub_texts[n]) ],
                      [ n \in 1..Len(doc_texts) |-> CollapseWs(doc_texts[n]) ]) ]

\* _coalesce_split_orgs, lines 53-59: the first later entry with that key
RECURSIVE FindLater(_, _, _)
FindLater(orgs, j, key) ==
    IF j > Len(orgs) THEN 0
    ELSE IF norm_org(orgs[j].org_text) = key THEN j
    ELSE FindLater(orgs, j + 1, key)

\* the docs of both entries, repeats included
MergeDocsKeepAll(ts, merged_docs) == merged_docs \o ts

\* lines 63-68: the docs of both entries, without empty texts and repeats
RECURSIVE MergeDocs(_, _)
MergeDocs(ts, merged_docs) ==
    IF ts = << >> THEN merged_docs
    ELSE IF Head(ts) # << >> /\ \A k \in 1..Len(merged_docs) : merged_docs[k] # Head(ts)
         THEN MergeDocs(Tail(ts), Append(merged_docs, Head(ts)))
         ELSE MergeDocs(Tail(ts), merged_docs)

\* a coalescing that keeps the later position instead of the earlier one
RECURSIVE CoalesceFromKeepLater(_, _)
CoalesceFromKeepLater(orgs, i) ==
    IF i > Len(orgs) THEN orgs
    ELSE LET cur == orgs[i]
         IN  IF Len(cur.suborg_texts) # 1 THEN CoalesceFromKeepLater(orgs, i + 1)
             ELSE LET combined == CollapseWs(cur.org_text \o << " " >>
                                             \o cur.suborg_texts[1])
                      found    == FindLater(orgs, i + 1, norm_org(combined))
                  IN  IF found = 0 THEN CoalesceFromKeepLater(orgs, i + 1)
                      ELSE CoalesceFromKeepLater(
                               [ k \in 1..(Len(orgs) - 1) |->
                                   IF k = found - 1
                                   THEN Entry(combined, << >>,
                                              MergeDocs(cur.doc_texts
                                                        \o orgs[found].doc_texts, << >>))
                                   ELSE IF k < i THEN orgs[k] ELSE orgs[k + 1] ],
                               i)

\* the while loop of _coalesce_split_orgs, i 1-based
RECURSIVE CoalesceFrom(_, _)
CoalesceFrom(orgs, i) ==
    IF i > Len(orgs) THEN orgs
    ELSE LET cur == orgs[i]
         IN  IF Len(cur.suborg_texts) # 1 THEN CoalesceFrom(orgs, i + 1)
             ELSE LET combined == CollapseWs(cur.org_text \o << " " >>
                                             \o cur.suborg_texts[1])
                      found    == FindLater(orgs, i + 1, norm_org(combined))
                  IN  IF found = 0 THEN CoalesceFrom(orgs, i + 1)
                      ELSE CoalesceFrom(
                               [ k \in 1..(Len(orgs) - 1) |->
                                   IF k = i
                                   THEN Entry(combined, << >>,
                                              MergeDocs(cur.doc_texts
                                                        \o orgs[found].doc_texts, << >>))
                                   ELSE IF k < found THEN orgs[k] ELSE orgs[k + 1] ],
                               i)

\* _coalesce_split_orgs
coalesce_split_orgs(orgs) == CoalesceFrom(orgs, 1)

\* main.py, line 36: run_pipeline calls build_sumario_and_body, which starts
\* the scan for the cut (line 182)
CallSegmenter ==
    /\ pc = "rel_done"
    /\ pc' = "scan"
    /\ UNCHANGED << full_text, roster, bodyVars, cutVars, docVars >>

\* lines 184-234: the Sumario, and the roster before its post-processing
BuildRoster ==
    /\ pc = "cut_done"
    /\ LET sum_ents == filter_ents_in_span(0, cut)
           sum_rels == filter_relations_in_span(0, cut)
       IN  /\ sumario' = [ text |-> Slice(full_text, 0, cut), ents |-> sum_ents,
                           relations |-> sum_rels ]
           /\ roster' = RosterOrgs(sum_ents, sum_rels)
    /\ pc' = "merge"
    /\ UNCHANGED << full_text, bodyVars, cutVars, entVars, relVars, mergeVars,
                    renorm >>

\* roster["cut_index"] (line 186)
cut_index == Len(sumario.text)

\* lines 237-245, and main.py, line 41: the roster is coalesced, and the body
\* document is made of doc.text[cut_index:]
SplitBody ==
    /\ pc = "merged"
    /\ roster' = coalesce_split_orgs(merged)
    /\ full_text' = Slice(full_text, cut_index, Len(full_text))
    /\ pc' = "start"
    /\ UNCHANGED << bodyVars, cutVars, docVars >>

----------------------------------------------------------------------------
(* run_pipeline (main.py, lines 13-54) on documents of up to MaxPipeLines  *)
(* lines, and on two documents whose first heading is printed again.       *)

MaxPipeLines == 3

\* a heading of five tokens, the least _is_token_prefix takes for a repeat
LongHeading == <<"A","P","R","A","M"," ","A"," ","B"," ","C"," ","D","\n">>

\* a heading that is a shorter heading followed by the company line
SplitHeading == <<"A","P","R","A","M"," ","B"," ","C"," ","D"," ","F","\n">>

\* a numbered DOC label with a comma
CommaLabel == <<"A","V","I","S","O"," ","N",".","O",",","\n">>

PipeLineChoices ==
    { LongHeading, <<"A","P","R","A","M","\n">>, <<"A","V","I","S","O","\n">>,
      <<"B"," ","C"," ","D"," ","F","\n">>, <<"A","b"," ","c","d","\n">>, <<"\n">>,
      SplitHeading, CommaLabel }

\* Summary and Body with one ORG and one DOC; the same with a company line
RoundTripText ==
    LongHeading \o <<"A","V","I","S","O","\n">>
    \o LongHeading \o <<"A","V","I","S","O","\n">> \o <<"A","b"," ","c","d","\n">>

CompanyText ==
    LongHeading \o <<"B"," ","C"," ","D"," ","F","\n">> \o <<"A","V","I","S","O","\n">>
    \o LongHeading \o <<"B"," ","C"," ","D"," ","F","\n">> \o <<"A","b"," ","c","d","\n">>

\* a heading split over an ORG and a company line, printed whole further down
\* the Summary and again in the Body
CoalesceText ==
    <<"A","P","R","A","M","\n">> \o <<"B"," ","C"," ","D"," ","F","\n">>
    \o <<"A","V","I","S","O","\n">> \o SplitHeading \o <<"A","V","I","S","O","\n">>
    \o SplitHeading \o <<"A","b"," ","c","d","\n">>

\* a Summary of five headings: an orphan before a heading with a DOC, a heading
\* split over an ORG and a company line, a heading with a DOC, and the split
\* heading printed whole, which opens the Body too
OrderText ==
    <<"M","U","N","I","C","I","P","I","O","\n">> \o <<"C","A","M","A","R","A","\n">>
    \o <<"A","V","I","S","O","\n">> \o <<"A","P","R","A","M","\n">>
    \o <<"B"," ","C"," ","D"," ","F","\n">> \o <<"T","R","I","B","U","N","A","L","\n">>
    \o <<"A","V","I","S","O","\n">> \o SplitHeading \o <<"A","V","I","S","O","\n">>
    \o SplitHeading \o <<"A","V","I","S","O","\n">>

\* a Summary with a DOC label with a comma, a company line and a plain DOC
\* label
CommaText ==
    LongHeading \o CommaLabel \o <<"B"," ","C"," ","D"," ","F","\n">>
    \o <<"A","V","I","S","O","\n">> \o LongHeading \o <<"A","V","I","S","O","\n">>

PipeTexts ==
    { Flatten(ls) : ls \in UNION { [1..n -> PipeLineChoices] : n \in 0..MaxPipeLines } }
    \cup { RoundTripText, CompanyText, CoalesceText, OrderText, CommaText }

InitPipeline ==
    /\ full_text \in PipeTexts
    /\ roster = << >>
    /\ pc = "detect"
    /\ InitBody
    /\ InitCut
    /\ InitDoc

NextPipeline ==
    \/ NextDetect
    \/ CallSegmenter
    \/ NextCut
    \/ BuildRoster
    \/ NextMerge
    \/ SplitBody
    \/ Next

SpecPipeline == InitPipeline /\ [][NextPipeline]_vars

\* no ORG heading is printed again, neither verbatim nor by the prefix rule
NoHeadingRepeats == C10_VerbatimRepeats \cup C10_Repeats = {}

\* the whole document, before and after the body is split off
WholeText == IF sumario = None THEN full_text ELSE sumario.text \o full_text

\* without a repeat the cut is the end of the text, the Summary is the whole
\* document and the body is empty
C15_Split ==
    (pc = "merged" /\ NoHeadingRepeats) =>
        /\ cut = Len(full_text)
        /\ cut_index = Len(full_text)
        /\ sumario.text = full_text
        /\ full_text' = << >>

\* without a repeat no BodyItem is returned; an empty document has no
\* entities, no relations and no roster entries
C15_Result ==
    pc = "done" =>
        /\ NoHeadingRepeats => full_text = << >> /\ body_items = << >>
        /\ WholeText = << >> => ents = << >> /\ relations = << >> /\ roster = << >>

\* C15: degenerate input runs through the pipeline: when no ORG heading repeats,
\* cut_index = len(text), the Summary is the whole document, body_text is empty
\* and no BodyItem is returned; for the empty text the entity list, the
\* relation list and the roster's orgs are empty.
C15_Degenerate == []C15_Result /\ [][C15_Split]_vars

\* a finished run on a document with ORG headings, a DOC and a roster entry,
\* none of the headings repeated
C15_Witness ==
    /\ pc = "done"
    /\ NoHeadingRepeats
    /\ Cardinality(OrgIdx) >= 2
    /\ \E k \in 1..Len(roster) : roster[k].doc_texts # << >>
    /\ cut_index = Len(sumario.text)
    /\ sumario.text # << >>
    /\ body_items = << >>

----------------------------------------------------------------------------
(* The order of roster["orgs"] (segmenter.py, lines 214-239).              *)

\* the strictly increasing maps of 1..m into 1..n
Increasing(m, n) ==
    { f \in [1..m -> 1..n] : \A a, b \in 1..m : a < b => f[a] < f[b] }

\* the entries of out are in the order of the texts they stem from: entry k
\* starts with the text at f[k], f increases, and a text that is no entry's
\* first one is part of an entry whose first text comes before it
OrderKept(texts, out) ==
    \E f \in Increasing(Len(out), Len(texts)) :
        /\ \A k \in 1..Len(out) : StartsWith(out[k].org_text, texts[f[k]])
        /\ \A j \in 1..Len(texts) :
               (\A k \in 1..Len(out) : f[k] # j) =>
                   \E k \in 1..Len(out) :
                       /\ f[k] < j
                       /\ Contains(norm_org(out[k].org_text), norm_org(texts[j]))

\* the collapsed texts of the Summary ORG spans, by start offset
SummaryOrgTexts ==
    LET orgs == sumario.ents["ORG"]
    IN  [ k \in 1..Len(orgs) |-> CollapseWs(orgs[k].text) ]

OrgTexts(orgs) == [ k \in 1..Len(orgs) |-> orgs[k].org_text ]

\* C21: roster["orgs"] keeps the Summary order: before the post-processing it
\* has one entry per Summary ORG span by increasing start offset; the entries
\* _merge_orphan_orgs returns are in the order of the entries they stem from,
\* and after _coalesce_split_orgs the entries are in the order of the start
\* offset of the earliest Summary ORG span each stems from.
C21_RosterOrder ==
    sumario # None =>
        LET orgs == sumario.ents["ORG"]
        IN  /\ \A a, b \in 1..Len(orgs) :
                   a < b => orgs[a].start_char < orgs[b].start_char
            /\ pc \in { "merge", "merged" } => OrgTexts(roster) = SummaryOrgTexts
            /\ pc = "merged" => OrderKept(OrgTexts(roster), merged)
            /\ pc \notin { "merge", "merged" } => OrderKept(SummaryOrgTexts, roster)

\* a finished run whose roster has three entries made of five Summary ORG
\* spans, the second of them coalesced with a later one
C21_Witness ==
    /\ pc = "done"
    /\ sumario # None
    /\ Len(sumario.ents["ORG"]) = 5
    /\ Len(roster) = 3
    /\ roster[2].org_text = CollapseWs(SplitHeading)
    /\ body_items # << >>

----------------------------------------------------------------------------
(* The roster and the Summary region (segmenter.py, lines 181-240).        *)

\* the ORG spans of the Summary, as indices of doc.ents
SummaryOrgs == { h \in OrgIdx : ents[h].end_char <= cut_index }

\* the k-th of them by start offset
SummaryOrg(k) ==
    { h \in SummaryOrgs :
        Cardinality({ g \in SummaryOrgs : ents[g].start_char < ents[h].start_char }) = k - 1 }

\* the entity at index n is a span of that label inside [0, cut_index), and
\* the tail of an edge of that kind whose head is one of the ORG spans heads
SummaryTail(n, lab, rel, heads) ==
    /\ ents[n].label = lab
    /\ 0 <= ents[n].start_char
    /\ ents[n].end_char <= cut_index
    /\ \E r \in 1..Len(relations) :
           /\ relations[r].relation = rel
           /\ relations[r].tail_offsets.start = ents[n].start_char
           /\ relations[r].tail_offsets.end = ents[n].end_char
           /\ \E h \in heads :
                  /\ ents[h].start_char = relations[r].head_offsets.start
                  /\ ents[h].end_char = relations[r].head_offsets.end

\* the texts are the collapsed texts of such tails, by increasing offset
FromSummary(texts, lab, rel, heads) ==
    \E f \in Increasing(Len(texts), Len(ents)) :
        \A n \in 1..Len(texts) :
            /\ SummaryTail(f[n], lab, rel, heads)
            /\ texts[n] = CollapseWs(ents[f[n]].text)
            /\ \A m \in 1..(n - 1) : ents[f[m]].start_char < ents[f[n]].start_char

\* an entry holds Summary texts only, and no DOC with a comma
C22_Entry(e, heads) ==
    /\ FromSummary(e.suborg_texts, "ORG_SECUNDARIA", "CONTAINS", heads)
    /\ FromSummary(e.doc_texts, "DOC", "SECTION_ITEM", heads)
    /\ \A n \in 1..Len(e.doc_texts) : ~HasComma(e.doc_texts[n])

\* as built, entry k holds all the tails of the k-th Summary ORG; after the
\* post-processing each entry holds tails of Summary ORG spans
C22_Roster ==
    sumario # None =>
        /\ cut_index = cut
        /\ pc \in { "merge", "merged" } =>
               /\ Len(roster) = Cardinality(SummaryOrgs)
               /\ \A k \in 1..Len(roster) :
                      /\ C22_Entry(roster[k], SummaryOrg(k))
                      /\ Len(roster[k].suborg_texts) =
                             Cardinality({ n \in 1..Len(ents) :
                                 SummaryTail(n, "ORG_SECUNDARIA", "CONTAINS", SummaryOrg(k)) })
                      /\ Len(roster[k].doc_texts) =
                             Cardinality({ n \in 1..Len(ents) :
                                 /\ SummaryTail(n, "DOC", "SECTION_ITEM", SummaryOrg(k))
                                 /\ ~HasComma(ents[n].text) })
        /\ pc = "merged" =>
               \A k \in 1..Len(merged) : C22_Entry(merged[k], SummaryOrgs)
        /\ pc \notin { "merge", "merged" } =>
               \A k \in 1..Len(roster) : C22_Entry(roster[k], SummaryOrgs)

\* the split: Summary text and body_text make up the full text
C22_Split ==
    pc = "merged" =>
        /\ sumario.text = Slice(full_text, 0, cut)
        /\ sumario.text \o full_text' = full_text
        /\ full_text' = Slice(full_text, cut, Len(full_text))

\* C22: the roster is built from the Summary region only: every suborg_text
\* and doc_text is the collapsed text of an ORG_SECUNDARIA or DOC span inside
\* [0, cut_index) that is the tail of a CONTAINS or SECTION_ITEM edge whose
\* head is a Summary ORG, listed by increasing tail offset; no doc_text has a
\* comma; cut_index is the cut offset, and Summary text + body_text is the
\* full text.
C22_SummaryOnly == []C22_Roster /\ [][C22_Split]_vars

\* a finished run with a Body, whose Summary has a DOC label with a comma and
\* one without, and whose roster holds the latter only
C22_Witness ==
    /\ pc = "done"
    /\ sumario # None
    /\ full_text # << >>
    /\ \E n \in 1..Len(ents) :
           /\ SummaryTail(n, "DOC", "SECTION_ITEM", SummaryOrgs)
           /\ HasComma(ents[n].text)
    /\ \E k \in 1..Len(roster) : roster[k].doc_texts # << >>
    /\ \E k \in 1..Len(roster) : roster[k].suborg_texts # << >>

----------------------------------------------------------------------------
(* The look-back retry (body_refind.py, lines 318-346 and 367-384), on     *)
(* Bodies whose ORG heading comes about LookbackChars characters after the *)
(* DOC phrases.  The run starts at step 4, with the shadow and the         *)
(* candidates that steps 1 to 3 give for a text of ASCII letters: the      *)
(* shadow is the text in lower case, and a one-letter phrase matches at    *)
(* every occurrence of the letter in either case, in upper case only for   *)
(* ORG and SUBORG.                                                         *)

LookbackGaps == { LookbackChars - 4, LookbackChars - 2, LookbackChars - 1 }

\* the occurrences of the letter of a one-letter phrase, by offset
LetterHits(text, phrase, caps) ==
    LET S == { i \in 1..Len(text) :
                 /\ UpperStr(<< text[i] >>) = UpperStr(phrase)
                 /\ caps => << text[i] >> = UpperStr(<< text[i] >>) }
    IN  [ k \in 1..Cardinality(S) |->
            LET i == CHOOSE i \in S : Cardinality({ j \in S : j < i }) = k - 1
            IN  << i - 1, i >> ]

LetterCands(text, phrases, caps) ==
    [ ph \in { phrases[k] : k \in { n \in 1..Len(phrases) :
                                       LetterHits(text, phrases[n], caps) # << >> } }
        |-> LetterHits(text, ph, caps) ]

LookbackRosters ==
    { << Entry(pA, << >>, << pa >>) >>,
      << Entry(pA, << >>, << pb, pa >>) >>,
      << Entry(pA, << pB >>, << pL >>) >>,
      << Entry(pL, << >>, << pa >>), Entry(pA, << pB >>, << >>) >> }

LookbackTexts ==
    { t \o [ i \in 1..g |-> "x" ] \o pA \o u :
        t \in { << "a" >>, << "a", "b" >>, << "b", "a" >> },
        g \in LookbackGaps,
        u \in { << >>, << "B" >>, << "a" >>, << "B", "a" >> } }

InitLookback ==
    /\ full_text \in LookbackTexts
    /\ roster \in LookbackRosters
    /\ InitCut
    /\ InitDoc
    /\ pc = "assign"
    /\ norm_body = LowerStr(full_text)
    /\ idx_map = [ i \in 1..Len(full_text) |-> i - 1 ]
    /\ org_cands = LetterCands(full_text, OrgPhrases, TRUE)
    /\ sub_cands = LetterCands(full_text, SubPhrases, TRUE)
    /\ doc_cands = LetterCands(full_text, DocPhrases, FALSE)
    /\ assigned_orgs = << >>
    /\ cursor = 0
    /\ sec_i = 1
    /\ sub_assignments = << >>
    /\ doc_assignments = << >>
    /\ body_items = << >>
    /\ order_idx = 1

NextLookback ==
    \/ AssignOrg
    \/ SkipUnassigned
    \/ AssignSection
    \/ LookbackRetry
    \/ SliceBySuborgs
    \/ SliceByDocs
    \/ Return

SpecLookback == InitLookback /\ [][NextLookback]_vars

\* the span of the ORG of the section at hand
C23_OrgSt == assigned_orgs[sec_i][1]
C23_OrgEn == assigned_orgs[sec_i][2]

\* the candidates of the n-th doc phrase of the entry, and the indices of
\* those that start in [lo, hi)
C23_Cands(n) == CandsOf(doc_cands, roster[sec_i].doc_texts[n])

C23_Hits(n, lo, hi) ==
    { k \in 1..Len(C23_Cands(n)) :
        lo <= C23_Cands(n)[k][1] /\ C23_Cands(n)[k][1] < hi }

C23_Lookback == Max(0, C23_OrgEn - LookbackChars)

C23_DocPhrases == 1..Len(roster[sec_i].doc_texts)

\* the retry runs only after an empty primary assignment
C23_OnlyWhenEmpty ==
    (pc = "section" /\ pc' \notin { "section", "done" }) =>
        /\ (pc' = "lookback") <=> (doc_assignments' = << >>)
        /\ (pc' = "lookback") <=>
               \A n \in 1..Len(roster[sec_i].doc_texts) :
                   C23_Hits(n, C23_OrgEn, SectionEnd) = {}

\* the retry takes the first candidate in the window of the first doc phrase
\* that has one, and nothing else
C23_Retry ==
    pc = "lookback" =>
        IF \A n \in C23_DocPhrases : C23_Hits(n, C23_Lookback, C23_OrgEn) = {}
        THEN doc_assignments' = << >> /\ pc' = "slice_subs"
        ELSE /\ pc' = "slice_docs"
             /\ \E n \in C23_DocPhrases :
                    /\ C23_Hits(n, C23_Lookback, C23_OrgEn) # {}
                    /\ \A m \in 1..(n - 1) : C23_Hits(m, C23_Lookback, C23_OrgEn) = {}
                    /\ \E k \in C23_Hits(n, C23_Lookback, C23_OrgEn) :
                           /\ \A j \in C23_Hits(n, C23_Lookback, C23_OrgEn) : k <= j
                           /\ doc_assignments' = << C23_Cands(n)[k] >>

\* a DOC found by the retry (it starts before org_end) gives one SECTION_ITEM
\* item over the whole section
C23_OneItem ==
    (pc = "slice_docs" /\ doc_assignments[1][1] < C23_OrgEn) =>
        /\ Len(doc_assignments) = 1
        /\ Len(body_items') = Len(body_items) + 1
        /\ LET it == body_items'[Len(body_items')]
           IN  /\ it.relation = "SECTION_ITEM"
               /\ it.doc_start = doc_assignments[1][1]
               /\ it.doc_end = doc_assignments[1][2]
               /\ it.slice_start = C23_OrgSt
               /\ it.slice_end = SectionEnd
               /\ it.order_index = order_idx

\* SUBORG-driven slicing only without a DOC in the section and in the window
C23_SuborgsLast ==
    pc = "slice_subs" =>
        /\ doc_assignments = << >>
        /\ \A n \in C23_DocPhrases : C23_Hits(n, C23_Lookback, SectionEnd) = {}
        /\ \A k \in (Len(body_items) + 1)..Len(body_items') :
               body_items'[k].relation = "CONTAINS"

C23_Step == C23_OnlyWhenEmpty /\ C23_Retry /\ C23_OneItem /\ C23_SuborgsLast

\* C23: the look-back retry runs only when the primary DOC assignment in
\* [org_end, section_end) finds nothing; it scans the ORG's doc phrases in
\* roster order and takes the first candidate that starts in
\* [max(0, org_end - 120), org_end); it yields at most one DOC assignment,
\* which gives exactly one SECTION_ITEM item with slice
\* [org_start, section_end); SUBORG-driven slicing is used only if the retry
\* finds nothing either.
C23_LookbackRetry == [][C23_Step]_vars

\* an item whose DOC starts exactly LookbackChars before the end of its ORG
C23_Witness ==
    \E k \in 1..Len(body_items) :
        /\ body_items[k].relation = "SECTION_ITEM"
        /\ body_items[k].org_end > LookbackChars
        /\ body_items[k].doc_start = body_items[k].org_end - LookbackChars
        /\ body_items[k].doc_end <= body_items[k].org_start

----------------------------------------------------------------------------
(* The anchor and the slice of a BodyItem (body_refind.py, lines 318-421). *)

C24_Inside(it) == it.slice_start <= it.doc_start /\ it.doc_end <= it.slice_end

\* C24: the anchor span of every returned BodyItem lies inside its slice:
\* slice_start <= doc_start and doc_end <= slice_end, for SECTION_ITEM items
\* (primary and look-back) and for CONTAINS items.
C24_AnchorInSlice ==
    \A k \in 1..Len(body_items) : C24_Inside(body_items[k])

----------------------------------------------------------------------------
(* The continuation lines of an ORG_SECUNDARIA span (entities.py, lines    *)
(* 255-291).                                                               *)

\* C25: an ORG_SECUNDARIA span takes in at most 2 lines after the promoted
\* one, and each of them satisfies the continuation rules of an ORG header:
\* is_header_continuation holds for it after the line before, and it is not
\* blank, not a DOC-label line and not a header start.
C25_SecondaryContinuation ==
    \A n \in 1..Len(spans) :
        spans[n].label = "ORG_SECUNDARIA" =>
            /\ Cardinality(LinesOf(spans[n])) <= 3
            /\ \A k \in LinesOf(spans[n]) :
                   k - 1 \in LinesOf(spans[n]) =>
                       /\ is_header_continuation(Lines[k - 1].ln, Lines[k].ln)
                       /\ ~is_blank(Lines[k].ln)
                       /\ ~is_doc_label_line(Lines[k].ln)
                       /\ ~starts_with_header_starter(Lines[k].ln)

----------------------------------------------------------------------------
(* SAME_AS edges (relations.py, lines 30-55).                              *)

\* the earlier ORG entities with the normalised text of the ORG entity k
C26_Earlier(k) ==
    { j \in 1..(k - 1) :
        RelEnts[j].label = "ORG" /\ Norm(RelEnts[j].text) = Norm(RelEnts[k].text) }

\* the SAME_AS edges whose tail is the entity k
C26_EdgesTo(k) ==
    { n \in 1..Len(relations) :
        /\ relations[n].relation = "SAME_AS"
        /\ relations[n].tail_offsets.start = RelEnts[k].start_char
        /\ relations[n].tail_offsets.end = RelEnts[k].end_char }

\* C26: for every ORG entity whose normalised text is that of an earlier ORG,
\* build_relations emits exactly one SAME_AS edge whose tail is that ORG, and
\* its head is the most recent earlier ORG with that text, three or more
\* occurrences included.
C26_SameAsMostRecent ==
    pc = "rel_done" =>
        \A k \in 1..Len(RelEnts) :
            (RelEnts[k].label = "ORG" /\ C26_Earlier(k) # {}) =>
                /\ Cardinality(C26_EdgesTo(k)) = 1
                /\ \A n \in C26_EdgesTo(k) :
                       LET j == CHOOSE j \in C26_Earlier(k) :
                                    \A i \in C26_Earlier(k) : i <= j
                       IN  /\ relations[n].head_offsets.start = RelEnts[j].start_char
                           /\ relations[n].head_offsets.end = RelEnts[j].end_char

----------------------------------------------------------------------------
(* The two post-processing passes of the roster (segmenter.py, lines       *)
(* 235-237) on rosters of up to MaxRoster entries: _merge_orphan_orgs, one *)
(* action per iteration, then _coalesce_split_orgs.                        *)

pC == << "C" >>

\* the entries a roster is drawn from: an orphan, entries with one SUBORG (and
\* DOCs), entries whose text is an ORG text followed by a SUBORG text, and an
\* entry with two SUBORGs
PostEntries ==
    { Entry(pA, << >>, << >>),
      Entry(pA, << pB >>, << >>),
      Entry(pA, << pB >>, << pa, pb >>),
      Entry(pA, << pB, pC >>, << >>),
      Entry(pB, << >>, << pa >>),
      Entry(pAB, << >>, << pa >>),
      Entry(pAB, << >>, << pb, pa, pb >>),
      Entry(pAB, << pC >>, << pb >>) }

InitPost ==
    /\ roster \in UNION { [1..n -> PostEntries] : n \in 0..MaxRoster }
    /\ full_text = << >>
    /\ pc = "merge"
    /\ InitBody
    /\ InitCut
    /\ InitDoc

\* line 237: roster_orgs = _coalesce_split_orgs(roster_orgs)
CoalesceRoster ==
    /\ pc = "merged"
    /\ roster' = coalesce_split_orgs(merged)
    /\ pc' = "coalesced"
    /\ UNCHANGED << full_text, bodyVars, cutVars, docVars >>

NextPost == NextMerge \/ CoalesceRoster

SpecPost == InitPost /\ [][NextPost]_vars

\* the normalised concatenation of an entry's text and its one SUBORG
C27_Combined(e) == CollapseWs(e.org_text \o << " " >> \o e.suborg_texts[1])

\* the later entries whose normalised text is that concatenation
C27_Later(orgs, i) ==
    { j \in (i + 1)..Len(orgs) :
        norm_org(orgs[j].org_text) = norm_org(C27_Combined(orgs[i])) }

\* the entries with exactly one SUBORG and such a later entry
C27_Pairs(orgs) ==
    { i \in 1..Len(orgs) :
        Len(orgs[i].suborg_texts) = 1 /\ C27_Later(orgs, i) # {} }

\* ts without its repeats, in order
C27_Dedup(ts) ==
    LET S == { k \in 1..Len(ts) : \A m \in 1..(k - 1) : ts[m] # ts[k] }
    IN  [ n \in 1..Cardinality(S) |->
            ts[CHOOSE k \in S : Cardinality({ m \in S : m < k }) = n - 1] ]

\* entry i takes the concatenation and the docs of both, entry j is deleted
C27_Coalesced(orgs, i, j) ==
    [ k \in 1..(Len(orgs) - 1) |->
        IF k = i
        THEN Entry(C27_Combined(orgs[i]), << >>,
                   C27_Dedup(orgs[i].doc_texts \o orgs[j].doc_texts))
        ELSE IF k < j THEN orgs[k] ELSE orgs[k + 1] ]

\* the pairs coalesced one after the other, the first pair first
RECURSIVE C27_Expected(_)
C27_Expected(orgs) ==
    IF C27_Pairs(orgs) = {} THEN orgs
    ELSE LET i == CHOOSE i \in C27_Pairs(orgs) : \A m \in C27_Pairs(orgs) : i <= m
             j == CHOOSE j \in C27_Later(orgs, i) : \A m \in C27_Later(orgs, i) : j <= m
         IN  C27_Expected(C27_Coalesced(orgs, i, j))

C27_Step ==
    pc = "merged" =>
        /\ roster' = C27_Expected(merged)
        /\ C27_Pairs(roster') = {}
        /\ pc' = "coalesced"

\* C27: for an entry i with exactly one SUBORG and the first later entry j
\* whose normalised text is the normalised concatenation of entry i's text
\* and that SUBORG, _coalesce_split_orgs leaves entry i in its place with the
\* concatenation as its text, no SUBORG, and the docs of entry i followed by
\* those of entry j that are not there yet; it deletes entry j and keeps the
\* other entries in their order; it returns, and no such pair is left.
C27_Coalescing == [][C27_Step]_vars

\* a coalesced roster of two entries or more, one of them made of two entries
\* that had a DOC in common and a DOC each
C27_Witness ==
    /\ pc = "coalesced"
    /\ Len(roster) >= 2
    /\ Len(roster) < Len(merged)
    /\ \E k \in 1..Len(roster) :
           /\ roster[k].org_text = pAB
           /\ roster[k].suborg_texts = << >>
           /\ roster[k].doc_texts = << pa, pb >>
           /\ merged[k].doc_texts = << pa, pb >>
           /\ \E j \in (k + 2)..Len(merged) : merged[j].doc_texts = << pb, pa, pb >>

\* the SUBORG and DOC texts of a roster
C28_Payload(orgs) ==
    UNION { { orgs[k].suborg_texts[n] : n \in 1..Len(orgs[k].suborg_texts) }
            \cup { orgs[k].doc_texts[n] : n \in 1..Len(orgs[k].doc_texts) } :
            k \in 1..Len(orgs) }

\* the text is a SUBORG or DOC text of the roster, or part of an ORG text
C28_Kept(t, orgs) ==
    \/ t \in C28_Payload(orgs)
    \/ \E k \in 1..Len(orgs) : Contains(orgs[k].org_text, t)

C28_Merged ==
    pc = "merged" => \A t \in C28_Payload(roster) : t \in C28_Payload(merged)

C28_Coalesced ==
    pc = "merged" => \A t \in C28_Payload(merged) : C28_Kept(t, roster')

\* C28: the post-processing of the roster discards no Summary content: every
\* suborg_text and doc_text of an entry before _merge_orphan_orgs and
\* _coalesce_split_orgs run is afterwards a suborg_text or doc_text of some
\* entry, or part of some entry's org_text.
C28_NothingDiscarded == []C28_Merged /\ [][C28_Coalesced]_vars

----------------------------------------------------------------------------
(* The ORG assignment of step 4 (body_refind.py, lines 270-289).           *)

\* the candidates of the k-th roster ORG
C29_Cands(k) == CandsOf(org_cands, roster[k].org_text)

\* the hits of each ORG phrase are pairwise non-overlapping, as finditer
\* gives them
C29_Disjoint ==
    \A k \in 1..Len(roster) :
        \A a, b \in 1..Len(C29_Cands(k)) :
            a < b => C29_Cands(k)[a][2] <= C29_Cands(k)[b][1]

\* the choices of one candidate per roster ORG, in roster order and without
\* overlap
C29_Choices ==
    { f \in [1..Len(roster) -> 1..Len(full_text)] :
        /\ \A k \in 1..Len(roster) : f[k] <= Len(C29_Cands(k))
        /\ \A k \in 2..Len(roster) :
               C29_Cands(k)[f[k]][1] >= C29_Cands(k - 1)[f[k - 1]][2] }

\* the assignment of step 4 is over
C29_Assigned == pc = "section" /\ sec_i = 1 /\ Len(assigned_orgs) = Len(roster)

\* C29: when the hits of each phrase are pairwise non-overlapping and some
\* choice of one candidate per roster ORG is in roster order and
\* non-overlapping, the first-hit-after-cursor assignment assigns every roster
\* ORG; an ORG is left unassigned only when there is no such choice.
C29_AssignmentComplete ==
    (C29_Assigned /\ C29_Disjoint /\ C29_Choices # {}) =>
        \A k \in 1..Len(roster) : assigned_orgs[k] # None

\* three roster ORGs are assigned, the last of them to a hit that is not the
\* first of its phrase
C29_Witness ==
    /\ C29_Assigned
    /\ C29_Disjoint
    /\ Len(roster) = 3
    /\ \A k \in 1..3 : assigned_orgs[k] # None
    /\ assigned_orgs[3] # C29_Cands(3)[1]
    /\ assigned_orgs[2] # C29_Cands(2)[1]

----------------------------------------------------------------------------
(* The line scanner of detect_entities.                                     *)

\* the 1-based numbers of the lines the scan has passed
C30_Passed == 1..line_i

\* the spans that cover some character of line l
C30_SpansOf(l) ==
    { n \in 1..Len(spans) :
        spans[n].start_char < Lines[l].end /\ Lines[l].start < spans[n].end_char }

C30_EntsOf(l) ==
    { n \in 1..Len(ents) :
        ents[n].start_char < Lines[l].end /\ Lines[l].start < ents[n].end_char }

C30_FirstHeader ==
    CHOOSE l \in C30_Passed :
        IsSectionHeader(Lines[l].ln) /\ \A m \in 1..(l - 1) : ~IsSectionHeader(Lines[m].ln)

C30_State ==
    /\ line_i <= Len(Lines)
    /\ state \in { "OUTSIDE", "IN_SECTION" }
    /\ state = "OUTSIDE" <=> \A l \in C30_Passed : ~IsSectionHeader(Lines[l].ln)
    /\ state = "OUTSIDE" => spans = << >>
    /\ state = "IN_SECTION" =>
           /\ spans # << >>
           /\ spans[1].label = "ORG"
           /\ spans[1].start_char = Lines[C30_FirstHeader].start
           /\ \A n \in 1..Len(spans) :
                  spans[n].label \in { "DOC", "ORG_SECUNDARIA" } =>
                      spans[1].start_char < spans[n].start_char
    /\ \A l \in 1..Len(Lines) : Cardinality(C30_SpansOf(l)) <= 1
    /\ \A l \in 1..Len(Lines) : Cardinality(C30_EntsOf(l)) <= 1
    /\ \A n \in 1..Len(ents) :
           ents[n].label \in { "DOC", "ORG_SECUNDARIA" } =>
               \E m \in 1..Len(ents) :
                   ents[m].label = "ORG" /\ ents[m].start_char < ents[n].start_char

C30_Step ==
    /\ state = "IN_SECTION" => state' = "IN_SECTION"
    /\ (state = "OUTSIDE" /\ state' = "IN_SECTION") =>
           Detecting /\ IsSectionHeader(CurLine.ln)
    /\ (Detecting /\ state = "OUTSIDE" /\ IsSectionHeader(CurLine.ln)) =>
           state' = "IN_SECTION"
    /\ Detecting => line_i' > line_i
    /\ spans' # spans =>
           /\ Len(spans') = Len(spans) + 1
           /\ SubSeq(spans', 1, Len(spans)) = spans
           /\ spans'[Len(spans')].label \in { "DOC", "ORG_SECUNDARIA" } =>
                  state = "IN_SECTION"
           /\ spans'[Len(spans')].start_char = CurLine.start

====
